---- MODULE Spec2Model ----
(***************************************************************************)
(* Memex: the central multi-tenant server (prometheus_server.py) and the   *)
(* edge sync client (cli/commands/sync.py).                                *)
(*                                                                         *)
(* Spec        the server: its record directories, its vector index and    *)
(*             the HTTP routes, each request handled in one step.          *)
(* SpecSend    one call of the client's _send_batch against a scripted     *)
(*             server, one POST per step.                                  *)
(* SpecTunnel  one run of the client's _sync_tunnel against the server.    *)
(* SpecPages   generate_page calls of the chat handler (chat_handler.py).  *)
(* SpecSessions the chat handler's session table under a running clock.    *)
(* SpecChat    one chat request's tool-use loop and its event stream.      *)
(***************************************************************************)
EXTENDS Integers, Sequences, FiniteSets, TLC

VARIABLES
    files,      \* record store: files[inst][id] is the content of <id>.json
    index,      \* vector index: index[inst] is the id set of the collection
    fault,      \* environment: fault[id] is what writing <id>.json meets
    chromaUp,   \* environment: the vector index service answers
    req,        \* the last request handled
    resp,       \* the reply to it
    repeated    \* history: the last request repeated the one before it

srvVars == <<files, index, fault, chromaUp, req, resp, repeated>>

VARIABLES
    stack,      \* _send_batch: the frames of the calls in progress, innermost last
    log,        \* history: the POSTs and the sleeps of the outermost call
    sent,       \* history: the documents of its successful POSTs, in order
    result,     \* what the outermost _send_batch call returned
    policy,     \* how the far end answers a POST
    cur_batch   \* the batch handed to the outermost _send_batch call

sendVars == <<stack, log, sent, result, policy, cur_batch>>

VARIABLES
    edge,       \* the edge's record store: edge[id] is the kind of <id>.json
    opts,       \* the run's options: token, batch_size, force, dry_run
    ocr_files,  \* the *.json files of the edge, in glob order
    tpc,        \* _sync_tunnel: where the run is
    to_sync,    \* the files the loop has still to visit
    tally       \* synced and errors

runVars == <<edge, opts, ocr_files, tpc, to_sync, tally>>

cliVars == <<sendVars, runVars>>

VARIABLES
    pages,      \* pages_dir: the stems of the *.html files in it
    made        \* the last generate_page call: its title and the stem it wrote

pageVars == <<pages, made>>

VARIABLES
    sessions,   \* ChatHandler.sessions: id -> instance_name, messages, last_active
    now,        \* time.time(), in seconds
    minted,     \* how many session ids uuid4 has handed out
    got         \* the last get_or_create_session call and what it returned

sessVars == <<sessions, now, minted, got>>

VARIABLES
    api_key,    \* ANTHROPIC_API_KEY is set: the handler has a client
    cpc,        \* the chat stream: "idle", "loop" or "closed"
    cur,        \* the chat request being served
    iteration,  \* the provider calls chat() has made for it
    stream,     \* summary of the events sent on the stream so far
    messages,   \* chat()'s local messages list: its length and its last entry
    offered,    \* the tool names handed to the provider
    assistant_content,  \* the content blocks of the provider's last response
    turn        \* the last iteration: its events, executions and tool_results

chatVars == <<api_key, cpc, cur, iteration, stream, messages, offered,
              assistant_content, turn>>

hubVars == <<pageVars, sessVars, chatVars>>

VARIABLES
    screens,      \* FlowRunner: the screens detect_screens found
    is_running,   \* FlowRunner.is_running
    rpc,          \* FlowRunner.start: where the runner task is
    left,         \* capture_all_screens: the screens its loop has still to visit
    captures,     \* how many capture_all_screens calls have begun
    ocr_threads,  \* the OCR threads started and not yet finished
    ocr_written,  \* how many record files the OCR threads have written
    asked,        \* shutdown: "no", "stop" (stop()) or "signal" (SIGINT, SIGTERM)
    alive,        \* the process has not exited
    killed,       \* the OCR threads that were running when the process exited
    late          \* a capture_all_screens call began after shutdown was requested

capVars == <<screens, is_running, rpc, left, captures, ocr_threads,
             ocr_written, asked, alive, killed, late>>

VARIABLES
    ocr_data_dir,  \* the edge's record files: stem of the file name and content
    collection     \* screen_ocr_history at the edge: id and the record indexed

idVars == <<ocr_data_dir, collection>>

VARIABLES
    find_args,       \* search_recent_relevant: the arguments and the collection
    fpc,             \* where the call is: "idle", "loop" or "returned"
    current_days,    \* the window of the next query, in days
    all_results,     \* the entries collected so far, in order
    search_windows,  \* the windows queried, the first MaxWindows of them
    queries,         \* the queries made, counted modulo 2
    final_results    \* the results of the reply

findVars == <<find_args, fpc, current_days, all_results, search_windows,
              queries, final_results>>

VARIABLES
    filtered_data,   \* time_range_summary: how many records are in range
    max_results,     \* its max_results argument
    sampled_data     \* the positions, in the time-sorted list, of its sample

sampleVars == <<filtered_data, max_results, sampled_data>>

VARIABLES
    chats,     \* how many chat requests have been served to their end
    removed    \* the last DELETE of a session: its route and the session's instance

talkVars == <<chats, removed>>

restVars == <<capVars, idVars, findVars, sampleVars, talkVars>>

vars == <<srvVars, cliVars, hubVars, restVars>>

(***************************************************************************)
(* Bounds of the model.                                                    *)
(***************************************************************************)
MaxBatch == 2       \* longest batch enumerated in full

(***************************************************************************)
(* Program constants.                                                      *)
(***************************************************************************)
ErrorCap == 10      \* errors[:10]

INSTANCES == {"personal", "walmart"}

\* Path segments a client may put in /<instance>/...: the declared ones and
\* one that is not declared.
PathNames == INSTANCES \cup {"ghost"}

Ids == {"a", "b"}

\* A text with characters and a text of white space only.
Texts == {"hello", "  "}

Raw == "r1"

Absent == "absent"
Partial == "partial"

Min(x, y) == IF x <= y THEN x ELSE y

\* str.strip() on the texts of the model.
Strip(t) == IF t = "  " THEN "" ELSE t

\* SyncDocument: id, text, raw_json (metadata only feeds the index's
\* metadata, which no route of the server reads back).
Docs == [id : Ids, text : Texts, raw_json : {Raw}]

RECURSIVE SeqsUpTo(_, _)
SeqsUpTo(S, n) ==
    IF n = 0 THEN {<<>>}
    ELSE LET shorter == SeqsUpTo(S, n - 1)
         IN  shorter \cup {Append(s, x) : s \in {t \in shorter : Len(t) = n - 1}, x \in S}

\* One batch longer than the error cap: ErrorCap + 1 copies of one document.
LongBatch == [i \in 1..(ErrorCap + 1) |-> [id |-> "a", text |-> "hello", raw_json |-> Raw]]

\* A text of more than MAX_REQUEST_SIZE bytes, and a batch that carries it.
HugeText == "huge"

HugeBatch == << [id |-> "b", text |-> HugeText, raw_json |-> Raw] >>

Batches == SeqsUpTo(Docs, MaxBatch) \cup {LongBatch, HugeBatch}

(***************************************************************************)
(* Auth (auth.py is not part of the sources): a token is allowed a set of  *)
(* instances; no token, an unknown token or an instance outside the set is *)
(* refused.                                                                *)
(***************************************************************************)
NoToken == "none"
Tokens == {NoToken, "prometheus"}

\* The key file of the model: one token, allowed one instance.
Allowed(token) == IF token = "prometheus" THEN {"personal"} ELSE {}

authenticate(token, instance) == instance \in Allowed(token)

(***************************************************************************)
(* The record directory as os.scandir sees it.                             *)
(***************************************************************************)
\* Entries that are not records: a stray file and a subdirectory.
ForeignEntries ==
    { [stem |-> ".DS_Store", ext |-> "", kind |-> "file"],
      [stem |-> "archive", ext |-> ".json", kind |-> "dir"] }

scandir(dir) ==
    { [stem |-> id, ext |-> ".json", kind |-> "file"] : id \in {i \in Ids : dir[i] # Absent} }
        \cup ForeignEntries

\* sync_status, lines 600-605: the stems of the regular files named *.json.
disk_ids(dir) ==
    { e.stem : e \in {x \in scandir(dir) : x.ext = ".json" /\ x.kind = "file"} }

(***************************************************************************)
(* POST /{instance}/sync                                                   *)
(***************************************************************************)
\* WriteOne, were it to leave an existing record alone and count only the
\* records it creates.
WriteOneSkipExisting(dir, fl, doc) ==
    IF dir[doc.id] # Absent THEN [dir |-> dir, written |-> 0, errors |-> <<>>]
    ELSE IF fl[doc.id] = "ok"
         THEN [dir |-> [dir EXCEPT ![doc.id] = doc.raw_json], written |-> 1, errors |-> <<>>]
         ELSE [dir |-> dir, written |-> 0, errors |-> << <<"write", doc.id>> >>]

\* Lines 537-543: open(file_path, "w"); json.dump(...); written += 1, any
\* exception caught and recorded.  open truncates the file, so a failure
\* after it leaves the file with an incomplete content.
WriteOne(dir, fl, doc) ==
    CASE fl[doc.id] = "ok" ->
            [dir |-> [dir EXCEPT ![doc.id] = doc.raw_json], written |-> 1, errors |-> <<>>]
      [] fl[doc.id] = "open" ->
            [dir |-> dir, written |-> 0, errors |-> << <<"write", doc.id>> >>]
      [] fl[doc.id] = "dump" ->
            [dir |-> [dir EXCEPT ![doc.id] = Partial], written |-> 0,
             errors |-> << <<"write", doc.id>> >>]

\* WriteLoop, were the first failure to end the loop.
RECURSIVE WriteLoopAbort(_, _, _)
WriteLoopAbort(dir, fl, docs) ==
    IF docs = <<>> THEN [dir |-> dir, written |-> 0, errors |-> <<>>]
    ELSE LET one == WriteOne(dir, fl, Head(docs))
         IN  IF one.written = 0 THEN one
             ELSE LET rest == WriteLoopAbort(one.dir, fl, Tail(docs))
                  IN  [dir |-> rest.dir, written |-> one.written + rest.written,
                       errors |-> one.errors \o rest.errors]

\* Lines 536-543: the loop over the documents.
RECURSIVE WriteLoop(_, _, _)
WriteLoop(dir, fl, docs) ==
    IF docs = <<>> THEN [dir |-> dir, written |-> 0, errors |-> <<>>]
    ELSE LET one  == WriteOne(dir, fl, Head(docs))
             rest == WriteLoop(one.dir, fl, Tail(docs))
         IN  [dir |-> rest.dir, written |-> one.written + rest.written,
              errors |-> one.errors \o rest.errors]

\* Lines 553-563: the ids of the documents whose text is not blank.
RECURSIVE batch_ids(_)
batch_ids(docs) ==
    IF docs = <<>> THEN <<>>
    ELSE IF Strip(Head(docs).text) = "" THEN batch_ids(Tail(docs))
         ELSE <<Head(docs).id>> \o batch_ids(Tail(docs))

Range(s) == {s[i] : i \in 1..Len(s)}

\* Lines 546-573: the batch upsert; any exception is recorded.
Upsert(coll, up, docs) ==
    IF docs = <<>> THEN [coll |-> coll, indexed |-> 0, errors |-> <<>>]
    ELSE IF ~up THEN [coll |-> coll, indexed |-> 0, errors |-> << <<"chromadb upsert">> >>]
    ELSE LET ids == batch_ids(docs)
         IN  [coll |-> coll \cup Range(ids), indexed |-> Len(ids), errors |-> <<>>]

\* Lines 531-582: the body of the handler once the request is accepted.
SyncBody(dir, coll, fl, up, docs) ==
    LET w == WriteLoop(dir, fl, docs)
        u == Upsert(coll, up, docs)
        errors == w.errors \o u.errors
    IN  [dir |-> w.dir, coll |-> u.coll,
         reply |-> [route |-> "sync", status |-> 200, written |-> w.written,
                    indexed |-> u.indexed,
                    errors |-> SubSeq(errors, 1, Min(ErrorCap, Len(errors))),
                    audit |-> <<"SYNC">>]]

Refused(route, status, audit) ==
    [route |-> route, status |-> status, audit |-> audit]

\* sync_documents, were the documents written before the token is looked at.
sync_documents_late_auth(instance, token, bodyOk, batch) ==
    /\ req' = [route |-> "sync", instance |-> instance, token |-> token,
               bodyOk |-> bodyOk, batch |-> batch]
    /\ repeated' = (req' = req)
    /\ IF instance \notin INSTANCES THEN
            /\ resp' = Refused("sync", 404, <<>>)
            /\ UNCHANGED <<files, index>>
       ELSE IF ~bodyOk THEN
            /\ resp' = Refused("sync", 400, <<>>)
            /\ UNCHANGED <<files, index>>
       ELSE LET r == SyncBody(files[instance], index[instance], fault, chromaUp, batch)
            IN  /\ files' = [files EXCEPT ![instance] = r.dir]
                /\ index' = [index EXCEPT ![instance] = r.coll]
                /\ resp' = IF authenticate(token, instance) THEN r.reply
                           ELSE Refused("sync", 401, <<"AUTH_FAIL">>)
    /\ UNCHANGED <<fault, chromaUp>>

\* Lines 502-582.  bodyOk: the body parses as a SyncRequest.
sync_documents(instance, token, bodyOk, batch) ==
    /\ req' = [route |-> "sync", instance |-> instance, token |-> token,
               bodyOk |-> bodyOk, batch |-> batch]
    /\ repeated' = (req' = req)
    /\ IF instance \notin INSTANCES THEN
            /\ resp' = Refused("sync", 404, <<>>)
            /\ UNCHANGED <<files, index>>
       ELSE IF ~authenticate(token, instance) THEN
            /\ resp' = Refused("sync", 401, <<"AUTH_FAIL">>)
            /\ UNCHANGED <<files, index>>
       ELSE IF ~bodyOk THEN
            /\ resp' = Refused("sync", 400, <<>>)
            /\ UNCHANGED <<files, index>>
       ELSE LET r == SyncBody(files[instance], index[instance], fault, chromaUp, batch)
            IN  /\ files' = [files EXCEPT ![instance] = r.dir]
                /\ index' = [index EXCEPT ![instance] = r.coll]
                /\ resp' = r.reply
    /\ UNCHANGED <<fault, chromaUp>>

\* The requests a client sends.  The body is read only once the request is
\* authenticated: the requests that are refused before carry one batch.
ProbeBatch == << [id |-> "a", text |-> "hello", raw_json |-> Raw] >>

SyncPost ==
    /\ \E instance \in PathNames, token \in Tokens :
           IF instance \in INSTANCES /\ authenticate(token, instance)
           THEN \/ \E batch \in Batches : sync_documents(instance, token, TRUE, batch)
                \/ sync_documents(instance, token, FALSE, <<>>)
           ELSE sync_documents(instance, token, TRUE, ProbeBatch)
    /\ UNCHANGED <<cliVars, hubVars, restVars>>

(***************************************************************************)
(* GET /{instance}/sync/status                                             *)
(***************************************************************************)
\* sync_status, were the ids read from the vector index.
sync_status_from_index(instance, token) ==
    /\ req' = [route |-> "status", instance |-> instance, token |-> token]
    /\ repeated' = FALSE
    /\ IF instance \notin INSTANCES THEN resp' = Refused("status", 404, <<>>)
       ELSE IF ~authenticate(token, instance) THEN resp' = Refused("status", 401, <<>>)
       ELSE resp' = [route |-> "status", status |-> 200, instance |-> instance,
                     count |-> Cardinality(index[instance]),
                     ids |-> index[instance], audit |-> <<>>]
    /\ UNCHANGED <<files, index, fault, chromaUp>>

\* Lines 585-611.
sync_status(instance, token) ==
    /\ req' = [route |-> "status", instance |-> instance, token |-> token]
    /\ repeated' = FALSE
    /\ IF instance \notin INSTANCES THEN resp' = Refused("status", 404, <<>>)
       ELSE IF ~authenticate(token, instance) THEN resp' = Refused("status", 401, <<>>)
       ELSE resp' = [route |-> "status", status |-> 200, instance |-> instance,
                     count |-> Cardinality(disk_ids(files[instance])),
                     ids |-> disk_ids(files[instance]), audit |-> <<>>]
    /\ UNCHANGED <<files, index, fault, chromaUp>>

SyncStatus ==
    /\ \E instance \in PathNames, token \in Tokens : sync_status(instance, token)
    /\ UNCHANGED <<cliVars, hubVars, restVars>>

(***************************************************************************)
(* POST /{instance}/mcp                                                    *)
(***************************************************************************)
MAX_REQUEST_SIZE == 1048576

\* Content-Length as the client declares it: no header, a small body, a
\* body over the limit.  bytes is the length of the body that is sent: the
\* declared one, or any length when none is declared (chunked).
ContentLengths == {-1, 512, MAX_REQUEST_SIZE + 1}

Methods == {"initialize", "tools/list", "tools/call", "ping", "resources/list"}

\* params.name: missing, two names of get_tool_definitions, another name.
ToolNames == {"", "search-screenshots", "get-stats", "no-such-tool"}

\* AIValidator.validate (ai_validator.py is not part of the sources):
\* allow, or deny with a reason; a timeout denies with "validator_timeout".
Verdicts ==
    { [allow |-> TRUE, reason |-> "ok"],
      [allow |-> FALSE, reason |-> "policy"],
      [allow |-> FALSE, reason |-> "validator_timeout"] }

NoVerdict == [allow |-> TRUE, reason |-> "-"]

\* MemexInstance.call_tool, lines 209-212: self.tools is read first, and
\* no code that runs ever assigns it (the assignments of lines 59-85 follow
\* the return of get_chroma_collection), so the call raises.
call_tool(name) == [raised |-> TRUE, error |-> "AttributeError"]

McpReply(status, kind, code, isError, reason, called, stages, audit) ==
    [route |-> "mcp", status |-> status, kind |-> kind, code |-> code,
     isError |-> isError, reason |-> reason, called |-> called,
     stages |-> stages, audit |-> audit]

\* tools_call, were a denied call logged and dispatched all the same.
tools_call_fail_open(tool, verdict, stages, audit) ==
    IF tool = "" THEN
        McpReply(200, "error", -32602, FALSE, "", FALSE, stages, audit)
    ELSE LET r == call_tool(tool)
             lines == IF verdict.allow THEN audit ELSE audit \o <<"AI_DENY">>
         IN  McpReply(200, "result", 0, r.raised, IF r.raised THEN r.error ELSE "", TRUE,
                      stages \o <<"validate", "dispatch">>, lines)

\* tools_call, were an exception of the tool answered as a JSON-RPC error.
tools_call_rpc_error(tool, verdict, stages, audit) ==
    IF tool = "" THEN
        McpReply(200, "error", -32602, FALSE, "", FALSE, stages, audit)
    ELSE IF ~verdict.allow THEN
        McpReply(200, "result", 0, TRUE, verdict.reason, FALSE,
                 stages \o <<"validate">>, audit \o <<"AI_DENY">>)
    ELSE LET r == call_tool(tool)
         IN  IF r.raised
             THEN McpReply(200, "error", -32603, FALSE, r.error, TRUE,
                           stages \o <<"validate", "dispatch">>, audit)
             ELSE McpReply(200, "result", 0, FALSE, "", TRUE,
                           stages \o <<"validate", "dispatch">>, audit \o <<"TOOL_OK">>)

\* Lines 775-835: tools/call.
tools_call(tool, verdict, stages, audit) ==
    IF tool = "" THEN
        McpReply(200, "error", -32602, FALSE, "", FALSE, stages, audit)
    ELSE IF ~verdict.allow THEN
        McpReply(200, "result", 0, TRUE, verdict.reason, FALSE,
                 stages \o <<"validate">>, audit \o <<"AI_DENY">>)
    ELSE LET r == call_tool(tool)
         IN  IF r.raised
             THEN McpReply(200, "result", 0, TRUE, r.error, TRUE,
                           stages \o <<"validate", "dispatch">>, audit)
             ELSE McpReply(200, "result", 0, FALSE, "", TRUE,
                           stages \o <<"validate", "dispatch">>, audit \o <<"TOOL_OK">>)

\* Lines 684-849.  rateOk: the answer of RateLimiter.check (rate_limiter.py
\* is not part of the sources).
mcp_reply(instance, token, clen, rateOk, bodyOk, hasId, method, tool, verdict) ==
    IF instance \notin INSTANCES THEN
        McpReply(404, "error", -32600, FALSE, "", FALSE, <<>>, <<>>)
    ELSE IF clen > MAX_REQUEST_SIZE THEN
        McpReply(413, "http", 0, FALSE, "", FALSE, <<"size">>, <<>>)
    ELSE IF ~authenticate(token, instance) THEN
        McpReply(401, "error", -32000, FALSE, "", FALSE, <<"size", "auth">>, <<"AUTH_FAIL">>)
    ELSE IF ~rateOk THEN
        McpReply(429, "http", 0, FALSE, "", FALSE, <<"size", "auth", "rate">>,
                 <<"RATE_LIMIT">>)
    ELSE IF ~bodyOk THEN
        McpReply(400, "error", -32700, FALSE, "", FALSE,
                 <<"size", "auth", "rate", "parse">>, <<>>)
    ELSE LET stages == <<"size", "auth", "rate", "parse", "audit">>
             audit  == <<"REQUEST">>
         IN  IF ~hasId THEN McpReply(202, "none", 0, FALSE, "", FALSE, stages, audit)
             ELSE CASE method = "initialize" ->
                         McpReply(200, "result", 0, FALSE, "", FALSE, stages, audit)
                    [] method = "tools/list" ->
                         McpReply(200, "result", 0, FALSE, "", FALSE, stages, audit)
                    [] method = "tools/call" -> tools_call(tool, verdict, stages, audit)
                    [] method = "ping" ->
                         McpReply(200, "result", 0, FALSE, "", FALSE, stages, audit)
                    [] OTHER ->
                         McpReply(200, "error", -32601, FALSE, "", FALSE, stages, audit)

mcp_endpoint(instance, token, clen, bytes, rateOk, bodyOk, hasId, method, tool, verdict) ==
    /\ req' = [route |-> "mcp", instance |-> instance, token |-> token, bytes |-> bytes,
               method |-> method, tool |-> tool, verdict |-> verdict]
    /\ resp' = mcp_reply(instance, token, clen, rateOk, bodyOk, hasId, method, tool, verdict)
    /\ repeated' = FALSE
    /\ UNCHANGED <<files, index, fault, chromaUp>>

\* The requests a client sends.  A stage that refuses a request ends it, so
\* what the later stages would read is varied only for the requests that
\* reach them.
McpPost ==
    /\ \E instance \in PathNames, token \in Tokens :
           \/ mcp_endpoint(instance, token, MAX_REQUEST_SIZE + 1, MAX_REQUEST_SIZE + 1,
                           TRUE, TRUE, TRUE, "ping", "", NoVerdict)
           \/ /\ instance \notin INSTANCES \/ ~authenticate(token, instance)
              /\ mcp_endpoint(instance, token, -1, 512, TRUE, TRUE, TRUE, "ping", "", NoVerdict)
           \/ /\ instance \in INSTANCES /\ authenticate(token, instance)
              /\ \/ mcp_endpoint(instance, token, 512, 512, FALSE, TRUE, TRUE, "ping", "",
                                 NoVerdict)
                 \/ mcp_endpoint(instance, token, 512, 512, TRUE, FALSE, TRUE, "ping", "",
                                 NoVerdict)
                 \/ mcp_endpoint(instance, token, -1, 512, TRUE, TRUE, FALSE, "initialized", "",
                                 NoVerdict)
                 \/ mcp_endpoint(instance, token, -1, MAX_REQUEST_SIZE + 1, TRUE, TRUE, TRUE,
                                 "ping", "", NoVerdict)
                 \/ \E method \in Methods \ {"tools/call"} :
                       mcp_endpoint(instance, token, 512, 512, TRUE, TRUE, TRUE, method, "",
                                    NoVerdict)
                 \/ mcp_endpoint(instance, token, 512, 512, TRUE, TRUE, TRUE, "tools/call", "",
                                 NoVerdict)
                 \/ \E tool \in ToolNames \ {""}, verdict \in Verdicts :
                       mcp_endpoint(instance, token, 512, 512, TRUE, TRUE, TRUE, "tools/call",
                                    tool, verdict)
    /\ UNCHANGED <<cliVars, hubVars, restVars>>

(***************************************************************************)
(* The routes that ask for no token.                                       *)
(***************************************************************************)
\* POST /chat, POST /{instance}/chat and DELETE /{instance}/chat/{id},
\* lines 616-679: no call of authenticate.  The orchestrator keeps its
\* sessions in memory and writes pages under pages_dir; the tools it runs
\* go through call_tool.  Neither the record directories nor the index are
\* written.
ChatRoutes == {"chat", "instance_chat", "delete_chat_session"}

chat_route(route, instance, token, messageOk) ==
    /\ req' = [route |-> route, instance |-> instance, token |-> token]
    /\ resp' = IF route = "instance_chat" /\ instance \notin INSTANCES
                 THEN Refused(route, 404, <<>>)
               ELSE IF route = "delete_chat_session"
                 THEN Refused(route, IF messageOk THEN 200 ELSE 404, <<>>)
               ELSE IF ~messageOk THEN Refused(route, 400, <<"CHAT">>)
               ELSE Refused(route, 200, <<"CHAT">>)
    /\ repeated' = FALSE
    /\ UNCHANGED <<files, index, fault, chromaUp>>

\* The client of these routes holds no token.
ChatRequest ==
    /\ \E ok \in BOOLEAN :
           \/ chat_route("chat", "-", NoToken, ok)
           \/ \E instance \in PathNames : chat_route("instance_chat", instance, NoToken, ok)
           \/ chat_route("delete_chat_session", "personal", NoToken, ok)
    /\ UNCHANGED <<cliVars, hubVars, restVars>>

\* GET /health, /api/metrics, /api/instance/{name}/detail, /api/info,
\* /pages/{slug}, /api/pages, /screenshots/{instance}/{filename}, lines
\* 193-486: they read the directories and the logs.
PublicRoutes == {"health", "metrics", "detail", "info", "pages", "screenshots"}

public_get(route, instance, token) ==
    /\ req' = [route |-> route, instance |-> instance, token |-> token]
    /\ resp' = IF route \in {"detail", "screenshots"} /\ instance \notin INSTANCES
                 THEN Refused(route, 404, <<>>)
                 ELSE Refused(route, 200, <<>>)
    /\ repeated' = FALSE
    /\ UNCHANGED <<files, index, fault, chromaUp>>

\* GET /{instance}/tools/list, lines 854-868.
list_tools(instance, token) ==
    /\ req' = [route |-> "tools_list", instance |-> instance, token |-> token]
    /\ resp' = IF instance \notin INSTANCES THEN Refused("tools_list", 404, <<>>)
               ELSE IF ~authenticate(token, instance) THEN Refused("tools_list", 401, <<>>)
               ELSE Refused("tools_list", 200, <<>>)
    /\ repeated' = FALSE
    /\ UNCHANGED <<files, index, fault, chromaUp>>

ReadRequest ==
    /\ \/ \E route \in PublicRoutes \ {"detail", "screenshots"} : public_get(route, "-", NoToken)
       \/ \E route \in {"detail", "screenshots"}, instance \in PathNames :
             public_get(route, instance, NoToken)
       \/ \E instance \in PathNames, token \in Tokens : list_tools(instance, token)
    /\ UNCHANGED <<cliVars, hubVars, restVars>>

(***************************************************************************)
(* The environment.                                                        *)
(***************************************************************************)
FaultKinds == {"ok", "open", "dump"}

\* The ids whose path can be in trouble.
TroubledIds == {"a"}

FaultMaps == {f \in [Ids -> FaultKinds] : \A id \in Ids \ TroubledIds : f[id] = "ok"}

NoRequest == [route |-> "none"]

\* The disk or the index service changes condition between two requests.
EnvChange ==
    /\ \E f \in FaultMaps, up \in BOOLEAN :
          /\ <<f, up>> # <<fault, chromaUp>>
          /\ fault' = f
          /\ chromaUp' = up
    /\ req' = NoRequest
    /\ resp' = NoRequest
    /\ repeated' = FALSE
    /\ UNCHANGED <<files, index, cliVars, hubVars, restVars>>

(***************************************************************************)
(* The edge client: _send_batch (cli/commands/sync.py).                    *)
(***************************************************************************)
max_retries == 3

MaxDocs == 10       \* longest batch sent to the size-limited server
MaxK == 4           \* largest document limit of the size-limited server
MaxUnreliable == 2  \* longest batch sent to the far end that fails at will

\* What a POST comes to, as _send_batch sees it: a 200 reply with its
\* indexed count and its number of errors, an HTTP 413, another HTTP error,
\* or any other exception (transport, timeout, a body that is not JSON).
Answer(kind, indexed, nerr) == [kind |-> kind, indexed |-> indexed, nerr |-> nerr]

NoAnswer == Answer("-", 0, 0)

NoResult == [ok |-> -1, err |-> -1]

Returned(ok, err) == [ok |-> ok, err |-> err]

\* One call of _send_batch: its batch, the attempt of its for loop, and, once
\* it has split, which half it waits for and what the first half returned.
Frame(b) == [batch |-> b, attempt |-> 0, part |-> "post", ok1 |-> 0, err1 |-> 0]

\* Line 224.
Mid(b) == Len(b) \div 2

\* Line 225: batch[:mid].
FirstHalf(b) == SubSeq(b, 1, Mid(b))

\* The second half, were it to start one document late.
SecondHalfSkipsOne(b) == SubSeq(b, Mid(b) + 2, Len(b))

\* Line 226: batch[mid:].
SecondHalf(b) == SubSeq(b, Mid(b) + 1, Len(b))

\* The wait, were it linear in the attempt.
BackoffLinear(attempt) == 2 * attempt

\* Lines 230 and 235: time.sleep(2 ** attempt).
Backoff(attempt) == 2 ^ attempt

\* A call returns val to its caller; stk holds the callers.  A caller that
\* waited for its first half calls the second (line 226); one that waited
\* for its second half returns the sums (line 227).
RECURSIVE Return(_, _)
Return(stk, val) ==
    IF stk = <<>> THEN [stack |-> <<>>, result |-> val]
    ELSE LET p == stk[Len(stk)]
             rest == SubSeq(stk, 1, Len(stk) - 1)
         IN  IF p.part = "left"
             THEN [stack |-> rest \o << [p EXCEPT !.part = "right",
                                                  !.ok1 = val.ok, !.err1 = val.err],
                                        Frame(SecondHalf(p.batch)) >>,
                   result |-> NoResult]
             ELSE Return(rest, Returned(p.ok1 + val.ok, p.err1 + val.err))

PostEvent(b, o) == [ev |-> "post", batch |-> b, out |-> o, secs |-> 0]

SleepEvent(b, secs) == [ev |-> "sleep", batch |-> b, out |-> NoAnswer, secs |-> secs]

\* Lines 205-237: the innermost call posts its batch and meets answer o.
_send_batch(o) ==
    LET f == stack[Len(stack)]
        rest == SubSeq(stack, 1, Len(stack) - 1)
        n == Len(f.batch)
        r == IF o.kind = "ok" THEN Return(rest, Returned(o.indexed, o.nerr))
             ELSE IF o.kind = "413" THEN
                    IF n > 1
                    THEN [stack |-> rest \o << [f EXCEPT !.part = "left"],
                                               Frame(FirstHalf(f.batch)) >>,
                          result |-> NoResult]
                    ELSE Return(rest, Returned(0, n))
             ELSE IF f.attempt < max_retries - 1
                  THEN [stack |-> rest \o << [f EXCEPT !.attempt = @ + 1] >>,
                        result |-> NoResult]
                  ELSE Return(rest, Returned(0, n))
        slept == o.kind \in {"http", "exc"} /\ f.attempt < max_retries - 1
    IN  /\ stack' = r.stack
        /\ result' = r.result
        /\ log' = log \o << PostEvent(f.batch, o) >>
                      \o (IF slept THEN << SleepEvent(f.batch, Backoff(f.attempt)) >>
                          ELSE <<>>)
        /\ sent' = IF o.kind = "ok" THEN sent \o f.batch ELSE sent

\* The scripted far end.  "limit": 413 to every POST of more than k
\* documents, success on every other.  "unreliable": any POST may succeed,
\* in full or with an error in the reply, or fail with an HTTP error other
\* than 413 or with a transport error.
Answers(b) ==
    IF policy.kind = "limit"
    THEN {IF Len(b) > policy.k THEN Answer("413", 0, 0) ELSE Answer("ok", Len(b), 0)}
    ELSE {Answer("ok", Len(b), 0), Answer("ok", 0, 1),
          Answer("http", 0, 0), Answer("exc", 0, 0)}

SendPost ==
    /\ stack # <<>>
    /\ \E o \in Answers(stack[Len(stack)].batch) : _send_batch(o)
    /\ UNCHANGED <<policy, cur_batch>>

Policies ==
    {[kind |-> "limit", k |-> k] : k \in 0..MaxK} \cup {[kind |-> "unreliable", k |-> 0]}

NoPolicy == [kind |-> "none", k |-> 0]

\* The batches of SpecSend: documents 1..n.
Numbered(n) == [i \in 1..n |-> i]

SendIdle ==
    /\ stack = <<>>
    /\ log = <<>>
    /\ sent = <<>>
    /\ result = NoResult
    /\ policy = NoPolicy
    /\ cur_batch = <<>>

(***************************************************************************)
(* The edge client: _sync_tunnel (cli/commands/sync.py).                   *)
(***************************************************************************)
MaxBatchSize == 2   \* largest --batch-size of a run

\* What an <id>.json of the edge holds: a record with a text, a record whose
\* text is empty or blank, or bytes that are not JSON.
EdgeKinds == {Absent, "text", "blank", "corrupt"}

\* _get_instance_name, line 100.
EdgeInstance == "personal"

\* Lines 21-68.  None is the empty sequence, a document a sequence of one.
_prepare_document(kinds, id) ==
    IF kinds[id] = "corrupt" THEN <<>>
    ELSE LET text == IF kinds[id] = "text" THEN "hello" ELSE "  "
         IN  IF Strip(text) = "" THEN <<>>
             ELSE << [id |-> id, text |-> text, raw_json |-> Raw] >>

\* Line 254: glob("*.json"), in whatever order the directory gives.
Orderings(S) ==
    {s \in [1..Cardinality(S) -> S] : \A i, j \in 1..Cardinality(S) : s[i] = s[j] => i = j}

\* Lines 144-156: nothing to send, or a dry run, ends the run at once.
Begin(ts) ==
    /\ to_sync' = ts
    /\ tpc' = IF ts = <<>> THEN "in_sync" ELSE IF opts.dry_run THEN "dry" ELSE "loop"

\* Lines 118-156.  The status request reaches the server, or does not.
TunnelStart ==
    /\ tpc = "start"
    /\ \/ /\ opts.force
          /\ Begin(ocr_files)
          /\ UNCHANGED srvVars
       \/ /\ ~opts.force
          /\ sync_status(EdgeInstance, opts.token)
          /\ IF resp'.status = 200
             THEN LET Missing(f) == f \notin resp'.ids
                  IN  Begin(SelectSeq(ocr_files, Missing))
             ELSE tpc' = "failed" /\ to_sync' = <<>>
       \/ /\ ~opts.force
          /\ tpc' = "failed"
          /\ to_sync' = <<>>
          /\ UNCHANGED srvVars
    /\ UNCHANGED <<sendVars, edge, opts, ocr_files, tally, hubVars, restVars>>

\* Lines 178 and 189: _send_batch is called.
Call(b) ==
    /\ stack' = << Frame(b) >>
    /\ log' = <<>>
    /\ sent' = <<>>
    /\ result' = NoResult
    /\ tpc' = "send"

\* Lines 172-194: one iteration of the loop, or what follows the loop.
TunnelLoop ==
    /\ tpc = "loop"
    /\ IF to_sync # <<>>
       THEN LET b == cur_batch \o _prepare_document(edge, Head(to_sync))
            IN  /\ to_sync' = Tail(to_sync)
                /\ cur_batch' = b
                /\ IF Len(b) >= opts.batch_size THEN Call(b)
                   ELSE UNCHANGED <<stack, log, sent, result, tpc>>
       ELSE /\ UNCHANGED <<to_sync, cur_batch>>
            /\ IF cur_batch # <<>> THEN Call(cur_batch)
               ELSE tpc' = "done" /\ UNCHANGED <<stack, log, sent, result>>
    /\ UNCHANGED <<srvVars, policy, edge, opts, ocr_files, tally, hubVars, restVars>>

\* What _send_batch makes of the server's reply (lines 216-220).
Heard(reply) ==
    IF reply.status = 200 THEN Answer("ok", reply.indexed, Len(reply.errors))
    ELSE Answer("http", 0, 0)

\* One POST of _send_batch through the tunnel: the server handles it and the
\* reply arrives or is lost; or the request never reaches the server (the
\* tunnel is down, or it refuses the body with 413).  When the outermost
\* call returns, lines 179-182 and 190-192 add its counts.
TunnelPost ==
    /\ tpc = "send"
    /\ stack # <<>>
    /\ \/ /\ sync_documents(EdgeInstance, opts.token, TRUE, stack[Len(stack)].batch)
          /\ \E heard \in BOOLEAN :
                _send_batch(IF heard THEN Heard(resp') ELSE Answer("exc", 0, 0))
       \/ /\ \E kind \in {"exc", "413"} : _send_batch(Answer(kind, 0, 0))
          /\ UNCHANGED srvVars
    /\ IF stack' = <<>>
       THEN /\ tally' = [synced |-> tally.synced + result'.ok,
                         errors |-> tally.errors + result'.err]
            /\ cur_batch' = <<>>
            /\ tpc' = "loop"
       ELSE UNCHANGED <<tally, cur_batch, tpc>>
    /\ UNCHANGED <<policy, edge, opts, ocr_files, to_sync, hubVars, restVars>>

RunIdle ==
    /\ edge = [id \in Ids |-> Absent]
    /\ opts = [token |-> NoToken, batch_size |-> 1, force |-> FALSE, dry_run |-> FALSE]
    /\ ocr_files = <<>>
    /\ tpc = "idle"
    /\ to_sync = <<>>
    /\ tally = [synced |-> 0, errors |-> 0]

(***************************************************************************)
(* The chat handler (chat_handler.py): generated pages.                    *)
(***************************************************************************)
MaxPages == 3       \* most files pages_dir comes to hold

SlugLimit == 80     \* slug[:80]

\* A text is a sequence of characters.  Repeat(c, n) is c written n times.
Repeat(c, n) == [i \in 1..n |-> c]

\* Titles the assistant may give a page: the plain one, the same words in
\* another spelling, one spelled like the plain one's first collision name,
\* a path, punctuation only, and two that are longer than the slug limit.
Titles ==
    { <<"H", "e", "l", "l", "o", " ", "W", "o", "r", "l", "d">>,
      <<" ", "h", "e", "l", "l", "o", "_", "_", "w", "o", "r", "l", "d", "!", " ">>,
      <<"H", "e", "l", "l", "o", " ", "W", "o", "r", "l", "d", " ", "1">>,
      <<".", ".", "/", ".", ".", "/", "e", "t", "c">>,
      <<"!", "?">>,
      Repeat("w", SlugLimit + 1),
      Repeat("w", SlugLimit - 1) \o <<" ", "w">> }

UpperCase == {"H", "W"}
Digits == {"0", "1", "2", "3", "4", "5", "6", "7", "8", "9"}
LowerCase == {"h", "e", "l", "o", "w", "r", "d", "t", "c"}

\* \w, \s and the dash of the patterns of _slugify.
WordChars == UpperCase \cup LowerCase \cup Digits \cup {"_"}
SpaceChars == {" "}
Dash == "-"

\* str.lower, one character.
LowerChar(c) == IF c = "H" THEN "h" ELSE IF c = "W" THEN "w" ELSE c

lower(s) == [i \in 1..Len(s) |-> LowerChar(s[i])]

\* s without its leading characters of the set C.
RECURSIVE lstrip(_, _)
lstrip(s, C) == IF s # <<>> /\ Head(s) \in C THEN lstrip(Tail(s), C) ELSE s

RECURSIVE rstrip(_, _)
rstrip(s, C) ==
    IF s # <<>> /\ s[Len(s)] \in C THEN rstrip(SubSeq(s, 1, Len(s) - 1), C) ELSE s

\* str.strip.
strip(s, C) == rstrip(lstrip(s, C), C)

\* re.sub(r'[C]+', rep, s) for a rep of one character: every maximal run of
\* characters of C becomes rep.  Of a run, the first place is kept.
sub_runs(s, C, rep) ==
    LET keep == SelectSeq([i \in 1..Len(s) |-> i],
                          LAMBDA i : s[i] \notin C \/ i = 1 \/ s[i - 1] \notin C)
    IN  [k \in 1..Len(keep) |-> IF s[keep[k]] \in C THEN rep ELSE s[keep[k]]]

\* re.sub(r'[^\w\s-]', '', s).
sub_other(s) == SelectSeq(s, LAMBDA c : c \in WordChars \cup SpaceChars \cup {Dash})

\* ChatHandler._slugify.
_slugify(title) ==
    LET s1 == strip(lower(title), SpaceChars)
        s2 == sub_other(s1)
        s3 == sub_runs(s2, SpaceChars \cup {"_"}, Dash)
        s4 == sub_runs(s3, {Dash}, Dash)
    IN  strip(SubSeq(s4, 1, Min(SlugLimit, Len(s4))), {Dash})

DigitOf == <<"0", "1", "2", "3", "4", "5", "6", "7", "8", "9">>

\* str(n) of the f-string.
RECURSIVE Decimal(_)
Decimal(n) == IF n < 10 THEN <<DigitOf[n + 1]>> ELSE Decimal(n \div 10) \o <<DigitOf[(n % 10) + 1]>>

\* The stem of f"{slug}-{counter}.html".
Suffixed(slug, counter) == slug \o <<Dash>> \o Decimal(counter)

\* generate_page without its while loop: the page is written at <slug>.html whatever
\* is there.
FreePathOverwrite(dir, slug, page_path, counter) == page_path

\* The while loop of generate_page: the path it ends on, given the path it
\* holds and the counter it would use next.
RECURSIVE FreePath(_, _, _, _)
FreePath(dir, slug, page_path, counter) ==
    IF page_path \in dir THEN FreePath(dir, slug, Suffixed(slug, counter), counter + 1)
    ELSE page_path

\* ChatHandler.generate_page: the stem of the file it writes.
page_stem(dir, title) ==
    CHOOSE page_path \in {FreePath(dir, slug, slug, 1) : slug \in {_slugify(title)}} : TRUE

NoPage == [title |-> <<>>, stem |-> <<>>, fresh |-> FALSE]

\* generate_page(title, ...): write_text creates the file or replaces it.
generate_page(title) ==
    LET stem == page_stem(pages, title)
    IN  /\ pages' = pages \cup {stem}
        /\ made' = [title |-> title, stem |-> stem, fresh |-> stem \notin pages]

PagesIdle ==
    /\ pages = {}
    /\ made = NoPage

GeneratePage ==
    /\ Cardinality(pages) < MaxPages
    /\ \E title \in Titles : generate_page(title)
    /\ UNCHANGED <<srvVars, cliVars, sessVars, chatVars, restVars>>

(***************************************************************************)
(* The chat handler: sessions.                                             *)
(***************************************************************************)
MaxSessions == 2    \* most session ids handed out
MaxTurns == 2       \* longest history a session comes to hold
MaxHours == 2       \* how far the clock runs, in session lifetimes

SessionTTL == 3600  \* 1 hour TTL

\* Optional[str]: the request names no session.
NoSessionId == 0

\* The ids a client may present: none, one that uuid4 has handed out or one
\* that it has not.
SessionIds == 0..(MaxSessions + 1)

\* ChatSession.__init__, without id and created_at.
ChatSession(instance_name, t) ==
    [instance_name |-> instance_name, messages |-> <<>>, last_active |-> t]

\* A session whose lifetime never ends.
is_expired_never(s, t) == FALSE

\* ChatSession.is_expired at time t.
is_expired(s, t) == (t - s.last_active) > SessionTTL

\* ChatHandler._cleanup_sessions: the table it leaves.
_cleanup_sessions(tab, t) ==
    [sid \in {i \in DOMAIN tab : ~is_expired(tab[i], t)} |-> tab[sid]]

\* ChatHandler.sessions after __init__.
NoSessions == [sid \in {} |-> ChatSession("", 0)]

NoCall == [asked |-> NoSessionId, id |-> NoSessionId, messages |-> <<>>,
           stale |-> FALSE, old |-> <<>>]

\* ChatHandler.get_or_create_session: the table and the id counter it
\* leaves, the id of the session it returns, and the record of the call.
\* uuid4 returns a new id at each call: the n-th one is n.
get_or_create_session(session_id, instance_name) ==
    LET kept == _cleanup_sessions(sessions, now)
        hit == session_id # NoSessionId /\ session_id \in DOMAIN kept
        sid == IF hit THEN session_id ELSE minted + 1
        tab == IF hit THEN [kept EXCEPT ![sid].last_active = now]
               ELSE [i \in DOMAIN kept \cup {sid} |->
                        IF i = sid THEN ChatSession(instance_name, now) ELSE kept[i]]
        known == session_id \in DOMAIN sessions
    IN  [sessions |-> tab,
         minted |-> IF hit THEN minted ELSE minted + 1,
         id |-> sid,
         got |-> [asked |-> session_id, id |-> sid, messages |-> tab[sid].messages,
                  stale |-> known /\ (now - sessions[session_id].last_active) > SessionTTL,
                  old |-> IF known THEN sessions[session_id].messages ELSE <<>>]]

\* An entry of ChatSession.messages: its role, and whether its content holds
\* a tool_use block.
Message(role, tool_use) == [role |-> role, tool_use |-> tool_use]

\* ChatSession.add_user_message, and add_assistant_message with a content
\* of text, on the session that is in the table under sid.
add_message(tab, sid, role, t) ==
    IF sid \in DOMAIN tab
      THEN [tab EXCEPT ![sid] = [@ EXCEPT !.messages = Append(@, Message(role, FALSE)),
                                          !.last_active = t]]
      ELSE tab

\* ChatHandler.delete_session.
delete_session(tab, session_id) == [sid \in DOMAIN tab \ {session_id} |-> tab[sid]]

SessionsIdle ==
    /\ sessions = NoSessions
    /\ now = 0
    /\ minted = 0
    /\ got = NoCall

\* A chat request reaches the handler, here for the first instance.
GetOrCreate ==
    /\ \E session_id \in SessionIds, instance_name \in {"personal"} :
          LET r == get_or_create_session(session_id, instance_name)
          IN  /\ r.minted <= MaxSessions
              /\ sessions' = r.sessions
              /\ minted' = r.minted
              /\ got' = r.got
    /\ UNCHANGED <<now, srvVars, cliVars, pageVars, chatVars, restVars>>

\* chat() stores a turn in the session the call returned: the user's, then
\* the assistant's.
AddMessage ==
    /\ \E sid \in DOMAIN sessions \cap {got.id} :
          /\ Len(sessions[sid].messages) < MaxTurns
          /\ \E role \in {"user", "assistant"} :
                /\ role = "assistant" =>
                      /\ sessions[sid].messages # <<>>
                      /\ sessions[sid].messages[Len(sessions[sid].messages)].role = "user"
                /\ sessions' = add_message(sessions, sid, role, now)
    /\ UNCHANGED <<now, minted, got, srvVars, cliVars, pageVars, chatVars, restVars>>

\* DELETE /{instance}/chat/{session_id}.
DeleteSession ==
    /\ \E session_id \in DOMAIN sessions : sessions' = delete_session(sessions, session_id)
    /\ UNCHANGED <<now, minted, got, srvVars, cliVars, pageVars, chatVars, restVars>>

\* Time passes: a second, or a session lifetime.
Tick ==
    /\ \E d \in {1, SessionTTL} :
          /\ d = 1 => now % SessionTTL = 0
          /\ now + d <= MaxHours * SessionTTL + 1
          /\ now' = now + d
    /\ UNCHANGED <<sessions, minted, got, srvVars, cliVars, pageVars, chatVars, restVars>>

(***************************************************************************)
(* The chat handler: one chat request, its tool-use loop and its stream.   *)
(***************************************************************************)
MaxBlocks == 2          \* most content blocks in one provider response

max_iterations == 10    \* max_iterations = 10

\* A tool name is a sequence of pieces; the separator "__" is a piece.
Sep == "__"
GeneratePageName == <<"generate_page">>

\* MemexInstance.get_tool_definitions: two of the names it lists.
ToolDefs == { <<"search-screenshots">>, <<"get-stats">> }

\* InstanceManager.list_instances, in the order of the configuration.
list_instances == <<"personal", "walmart">>

\* f"{inst_name}__{tool_def['name']}".
Prefixed(inst_name, tool_name) == <<inst_name, Sep>> \o tool_name

\* ChatHandler._get_tools_for_instance: the names of the tools.
_get_tools_for_instance(instance_name) ==
    IF instance_name \in INSTANCES THEN ToolDefs \cup {GeneratePageName} ELSE {}

\* ChatHandler._get_cross_instance_tools: the names of the tools.
_get_cross_instance_tools ==
    {Prefixed(inst_name, t) : inst_name \in Range(list_instances), t \in ToolDefs}
        \cup {GeneratePageName}

\* str.split("__", 1) of a name that holds the separator.
FirstSep(name) == CHOOSE i \in 1..Len(name) :
                      name[i] = Sep /\ \A j \in 1..(i - 1) : name[j] # Sep
split_once(name) ==
    [head |-> SubSeq(name, 1, FirstSep(name) - 1),
     tail |-> SubSeq(name, FirstSep(name) + 1, Len(name))]

\* The input of a generate_page tool_use: with its title, or without.
HelloWorld == <<"H", "e", "l", "l", "o", " ", "W", "o", "r", "l", "d">>
PageInputs == {[has_title |-> TRUE, title |-> HelloWorld],
               [has_title |-> FALSE, title |-> <<>>]}
NoInput == [has_title |-> FALSE, title |-> <<>>]

NoTarget == "-"

\* ChatHandler._execute_tool on the directory dir: whether it raised, the
\* instance and the tool call_tool was invoked on, and the page written.
_execute_tool(tool_name, tool_input, instance_name, cross_instance, dir) ==
    IF tool_name = GeneratePageName
      THEN IF tool_input.has_title
             THEN [raised |-> FALSE, error |-> "", instance |-> NoTarget, tool |-> <<>>,
                   wrote |-> TRUE, stem |-> page_stem(dir, tool_input.title)]
             ELSE [raised |-> TRUE, error |-> "KeyError", instance |-> NoTarget,
                   tool |-> <<>>, wrote |-> FALSE, stem |-> <<>>]
    ELSE IF cross_instance /\ Sep \in Range(tool_name)
      THEN LET parts == split_once(tool_name)
           IN  IF parts.head \in {<<i>> : i \in INSTANCES}
                 THEN [raised |-> call_tool(parts.tail).raised,
                       error |-> call_tool(parts.tail).error,
                       instance |-> parts.head[1], tool |-> parts.tail,
                       wrote |-> FALSE, stem |-> <<>>]
                 ELSE [raised |-> TRUE, error |-> "ValueError", instance |-> NoTarget,
                       tool |-> <<>>, wrote |-> FALSE, stem |-> <<>>]
    ELSE IF instance_name \in INSTANCES
      THEN [raised |-> call_tool(tool_name).raised, error |-> call_tool(tool_name).error,
            instance |-> instance_name, tool |-> tool_name,
            wrote |-> FALSE, stem |-> <<>>]
    ELSE [raised |-> TRUE, error |-> "ValueError", instance |-> NoTarget,
          tool |-> <<>>, wrote |-> FALSE, stem |-> <<>>]

\* An event of the stream.  The id and the tool name are those of the data
\* of tool_call and tool_result events.
Event(name, id, tool, is_error) ==
    [name |-> name, id |-> id, tool |-> tool, is_error |-> is_error]
Plain(name) == Event(name, 0, <<>>, FALSE)

\* The content blocks of a provider response.  The id of a tool_use block
\* is given by the provider: here, its place in the response.
TextBlock == [type |-> "text", name |-> <<>>, input |-> NoInput]
ToolUse(name, input) == [type |-> "tool_use", name |-> name, input |-> input]

\* The names the provider may use in cross-instance chat: the ones it was
\* offered, and one made of an instance that is not declared.
Requested(tools) == tools \cup {Prefixed("ghost", <<"get-stats">>)}

\* The blocks of a response that uses the names of the set tools.
Blocks(tools) ==
    {TextBlock}
        \cup {ToolUse(n, NoInput) : n \in tools \ {GeneratePageName}}
        \cup {ToolUse(GeneratePageName, i) : i \in PageInputs}

\* The responses to a request that offered the tools of cross-instance chat,
\* and to one that offered the tools of an instance.
CrossResponses == SeqsUpTo(Blocks(Requested(_get_cross_instance_tools)), MaxBlocks)
InstanceResponses == SeqsUpTo(Blocks(ToolDefs \cup {GeneratePageName}), MaxBlocks)

Responses(cross_instance) == IF cross_instance THEN CrossResponses ELSE InstanceResponses

\* tool_calls = [b for b in assistant_content if b["type"] == "tool_use"],
\* each with its id.
ToolCalls(response) ==
    LET at == SelectSeq([i \in 1..Len(response) |-> i],
                        LAMBDA i : response[i].type = "tool_use")
    IN  [k \in 1..Len(at) |->
            [id |-> at[k], name |-> response[at[k]].name, input |-> response[at[k]].input]]

\* The events of the streaming loop, lines 287-327: tool_call at the start
\* of a tool_use block, text at a text delta.
ResponseEvents(response) ==
    [i \in 1..Len(response) |->
        IF response[i].type = "tool_use"
          THEN Event("tool_call", i, response[i].name, FALSE)
          ELSE Plain("text")]

\* The for loop over tool_calls, lines 343-369, on the directory dir: the
\* directory it leaves, the events it sends, the executions and the
\* tool_results it collects.  The except branch sends no event.
\* One turn of that loop: the execution x of the tool call tc on the
\* directory dir, before what the rest of the loop did.
ran_one(tc, x, dir, rest) ==
    [dir |-> rest.dir,
     events |-> (IF x.raised THEN <<>>
                 ELSE <<Event("tool_result", tc.id, tc.name, FALSE)>> \o
                      (IF tc.name = GeneratePageName THEN <<Plain("page_created")>>
                       ELSE <<>>))
                \o rest.events,
     execs |-> <<[id |-> tc.id, name |-> tc.name, raised |-> x.raised,
                  instance |-> x.instance, tool |-> x.tool,
                  wrote |-> x.wrote, stem |-> x.stem,
                  fresh |-> x.wrote /\ x.stem \notin dir]>>
                \o rest.execs,
     tool_results |-> <<[tool_use_id |-> tc.id, is_error |-> x.raised]>>
                        \o rest.tool_results]

RECURSIVE run_tools(_, _, _, _)
run_tools(tool_calls, instance_name, cross_instance, dir) ==
    IF tool_calls = <<>>
      THEN [dir |-> dir, events |-> <<>>, execs |-> <<>>, tool_results |-> <<>>]
    ELSE CHOOSE ran \in UNION {
             {ran_one(Head(tool_calls), x, dir, rest) :
                 rest \in {run_tools(Tail(tool_calls), instance_name, cross_instance,
                                     IF x.wrote THEN dir \cup {x.stem} ELSE dir)}} :
             x \in {_execute_tool(Head(tool_calls).name, Head(tool_calls).input,
                                  instance_name, cross_instance, dir)}} : TRUE

\* The stream so far: its first and last events, the done events in it, and
\* whether an event came after a done.
NoStream == [first |-> "", last |-> "", dones |-> 0, after_done |-> FALSE]

RECURSIVE Emit(_, _)
Emit(s, events) ==
    IF events = <<>> THEN s
    ELSE Emit([first |-> IF s.first = "" THEN Head(events).name ELSE s.first,
               last |-> Head(events).name,
               dones |-> s.dones + (IF Head(events).name = "done" THEN 1 ELSE 0),
               after_done |-> s.after_done \/ s.dones > 0],
              Tail(events))

NoTurn == [events |-> <<>>, execs |-> <<>>, tool_results |-> <<>>]
NoChat == [instance_name |-> NoTarget, cross_instance |-> FALSE, sid |-> NoSessionId,
           route |-> NoTarget]
NoMessages == [n |-> 0, role |-> "", content |-> <<>>]

\* list.append on the local messages list.
Appended(m, role, content) == [n |-> m.n + 1, role |-> role, content |-> content]

\* The range of a loop of one more iteration is used up.
ExhaustedLate(n) == n = max_iterations + 1

\* The range of the for loop is used up after this iteration.
Exhausted(n) == n = max_iterations

\* ChatSession.add_assistant_message with the content blocks of a response.
add_assistant_message(tab, sid, content, t) ==
    IF sid \in DOMAIN tab
      THEN [tab EXCEPT ![sid] =
               [@ EXCEPT !.messages = Append(@, Message("assistant",
                                                        ToolCalls(content) # <<>>)),
                         !.last_active = t]]
      ELSE tab

ChatIdle ==
    /\ cpc = "idle"
    /\ cur = NoChat
    /\ iteration = 0
    /\ stream = NoStream
    /\ messages = NoMessages
    /\ offered = {}
    /\ assistant_content = <<>>
    /\ turn = NoTurn

\* POST /chat and POST /{instance}/chat, lines 616-668, up to the loop of
\* chat(): the session, the session event, and lines 251-264 of chat().
chat_open(instance_name, cross_instance, session_id) ==
    LET r == get_or_create_session(session_id, instance_name)
    IN  /\ r.minted <= MaxSessions
        /\ minted' = r.minted
        /\ got' = r.got
        /\ cur' = [instance_name |-> r.sessions[r.id].instance_name,
                   cross_instance |-> cross_instance, sid |-> r.id,
                   route |-> IF cross_instance THEN NoTarget ELSE instance_name]
        /\ iteration' = 0
        /\ assistant_content' = <<>>
        /\ turn' = NoTurn
        /\ IF ~api_key
             THEN /\ stream' = Emit(NoStream, <<Plain("session"), Plain("error")>>)
                  /\ sessions' = r.sessions
                  /\ messages' = NoMessages
                  /\ offered' = {}
                  /\ cpc' = "closed"
             ELSE /\ stream' = Emit(NoStream, <<Plain("session")>>)
                  /\ sessions' = add_message(r.sessions, r.id, "user", now)
                  /\ messages' = [n |-> Len(r.sessions[r.id].messages) + 1,
                                  role |-> "user", content |-> <<>>]
                  /\ offered' = IF cross_instance THEN _get_cross_instance_tools
                                ELSE _get_tools_for_instance(
                                         r.sessions[r.id].instance_name)
                  /\ cpc' = "loop"

\* The client names no session, or one that the table holds.
ChatOpen ==
    /\ cpc = "idle"
    /\ \E session_id \in {NoSessionId} \cup DOMAIN sessions :
          \/ chat_open(list_instances[1], TRUE, session_id)
          \/ \E instance \in INSTANCES : chat_open(instance, FALSE, session_id)
    /\ UNCHANGED <<api_key, now, srvVars, cliVars, pageVars, restVars>>

\* The pages a response asks for.
PageUses(response) ==
    Cardinality({i \in 1..Len(response) :
                    /\ response[i].type = "tool_use"
                    /\ response[i].name = GeneratePageName
                    /\ response[i].input.has_title})

\* One iteration of the loop, lines 268-369: the provider call, the events
\* of its response, and the execution of its tool_use blocks.  The response
\* asks for no more pages than pages_dir has room for.
chat_iterate(api_error, response) ==
    /\ iteration' = iteration + 1
    /\ assistant_content' = response
    /\ Cardinality(pages) + PageUses(response) <= MaxPages
    /\ \E tool_calls \in {ToolCalls(response)} :
       \E ran \in {run_tools(tool_calls, cur.instance_name, cur.cross_instance, pages)} :
       \E wrote \in {SelectSeq(ran.execs, LAMBDA x : x.wrote)} :
          IF api_error
            THEN /\ stream' = Emit(stream, <<Plain("error")>>)
                 /\ turn' = NoTurn
                 /\ cpc' = "closed"
                 /\ UNCHANGED <<messages, sessions, pages, made>>
          ELSE IF tool_calls = <<>>
            THEN /\ stream' = Emit(stream, ResponseEvents(response) \o <<Plain("done")>>)
                 /\ turn' = [events |-> ResponseEvents(response),
                             execs |-> <<>>, tool_results |-> <<>>]
                 /\ sessions' = add_assistant_message(sessions, cur.sid, response, now)
                 /\ cpc' = "closed"
                 /\ UNCHANGED <<messages, pages, made>>
          ELSE /\ stream' = Emit(stream, ResponseEvents(response) \o ran.events)
               /\ turn' = [events |-> ResponseEvents(response) \o ran.events,
                           execs |-> ran.execs, tool_results |-> ran.tool_results]
               /\ messages' = Appended(messages, "assistant", response)
               /\ pages' = ran.dir
               /\ made' = IF wrote = <<>> THEN made
                          ELSE [title |-> HelloWorld, stem |-> wrote[Len(wrote)].stem,
                                fresh |-> wrote[Len(wrote)].fresh]
               /\ cpc' = "append"
               /\ UNCHANGED sessions

ChatIterate ==
    /\ cpc = "loop"
    /\ \/ chat_iterate(TRUE, <<>>)
       \/ \E response \in Responses(cur.cross_instance) : chat_iterate(FALSE, response)
    /\ UNCHANGED <<api_key, cur, offered, now, minted, got, srvVars, cliVars, restVars>>

\* The end of an iteration, line 371, and the end of the loop, lines
\* 374-378.
ChatAppend ==
    /\ cpc = "append"
    /\ messages' = Appended(messages, "user", turn.tool_results)
    /\ assistant_content' = <<>>
    /\ turn' = NoTurn
    /\ IF Exhausted(iteration)
         THEN /\ sessions' = add_assistant_message(sessions, cur.sid,
                                                   assistant_content, now)
              /\ stream' = Emit(stream, <<Plain("done")>>)
              /\ cpc' = "closed"
         ELSE /\ cpc' = "loop"
              /\ UNCHANGED <<sessions, stream>>
    /\ UNCHANGED <<api_key, cur, iteration, offered, now, minted, got,
                   srvVars, cliVars, pageVars, restVars>>

\* The handler after __init__, with a client, before any request.
HubIdle == PagesIdle /\ SessionsIdle /\ ChatIdle /\ api_key = TRUE

(***************************************************************************)
(* The capture loop of the edge (refinery/run.py): FlowRunner and main().  *)
(***************************************************************************)
max_concurrent_ocr == 4
MaxScreens == 2
MaxCaptures == 3

\* What the capture loop leaves alone.
capRest == <<srvVars, cliVars, hubVars, idVars, findVars, sampleVars, talkVars>>

\* FlowRunner.__init__: nothing runs yet.  The semaphore it creates from
\* max_concurrent_ocr is used by no method, so it is no part of the state.
CaptureIdle ==
    /\ screens = 1
    /\ is_running = FALSE
    /\ rpc = "new"
    /\ left = 0
    /\ captures = 0
    /\ ocr_threads = 0
    /\ ocr_written = 0
    /\ asked = "no"
    /\ alive = TRUE
    /\ killed = 0
    /\ late = FALSE

\* start() up to its initial capture_all_screens call: the screens are
\* detected, and the call waits for the screen grabs.
Start ==
    /\ alive /\ rpc = "new"
    /\ screens' \in 1..MaxScreens
    /\ captures' = 1
    /\ rpc' = "grab"
    /\ UNCHANGED <<is_running, left, ocr_threads, ocr_written, asked, alive,
                   killed, late,
                   capRest>>

\* capture_all_screens: the grabs are there, the loop over them begins.
Grab ==
    /\ alive /\ rpc = "grab"
    /\ rpc' = "capture"
    /\ left' = screens
    /\ UNCHANGED <<screens, is_running, captures, ocr_threads, ocr_written,
                   asked, alive, killed, late,
                   capRest>>

\* One round of the loop of capture_all_screens: a daemon thread is started
\* on process_ocr_background for the screen.  After the last screen the call
\* returns to start(): the initial capture is followed by is_running = True,
\* a later one by the test of the while loop.
Dispatch ==
    /\ alive /\ rpc = "capture" /\ left > 0
    /\ ocr_threads' = ocr_threads + 1
    /\ left' = left - 1
    /\ IF left' > 0
         THEN UNCHANGED <<rpc, is_running>>
         ELSE IF captures = 1
                THEN is_running' = TRUE /\ rpc' = "sleep"
                ELSE /\ rpc' = IF is_running THEN "sleep" ELSE "returned"
                     /\ UNCHANGED is_running
    /\ UNCHANGED <<screens, captures, ocr_written, asked, alive, killed, late,
                   capRest>>

\* The sleep of the main loop is over: the next capture begins if is_running
\* still holds, and start() returns if not.  After a signal main(), woken by
\* the shutdown event, runs before the sleep ends.
Wake ==
    /\ alive /\ rpc = "sleep" /\ asked # "signal"
    /\ IF is_running
         THEN /\ captures < MaxCaptures
              /\ captures' = captures + 1
              /\ rpc' = "grab"
              /\ late' = (late \/ asked # "no")
         ELSE /\ rpc' = "returned"
              /\ UNCHANGED <<captures, late>>
    /\ UNCHANGED <<screens, is_running, left, ocr_threads, ocr_written, asked,
                   alive, killed,
                   capRest>>

\* process_ocr_background comes to its end: the record file is written.
OcrDone ==
    /\ alive /\ ocr_threads > 0
    /\ ocr_threads' = ocr_threads - 1
    /\ ocr_written' = ocr_written + 1
    /\ UNCHANGED <<screens, is_running, rpc, left, captures, asked, alive,
                   killed, late,
                   capRest>>

\* stop(), called while the runner runs.
Stop ==
    /\ alive /\ rpc # "new" /\ asked = "no"
    /\ is_running' = FALSE
    /\ asked' = "stop"
    /\ UNCHANGED <<screens, rpc, left, captures, ocr_threads, ocr_written,
                   alive, killed, late,
                   capRest>>

\* signal_handler of main(): SIGINT or SIGTERM.
Signal ==
    /\ alive /\ rpc # "new" /\ asked # "signal"
    /\ is_running' = FALSE
    /\ asked' = "signal"
    /\ UNCHANGED <<screens, rpc, left, captures, ocr_threads, ocr_written,
                   alive, killed, late,
                   capRest>>

\* main() after the shutdown event: stop(), the runner task is cancelled
\* where it waits, main() returns and the process exits.  The OCR threads
\* are daemon threads that nothing joins: those still running end with it.
Exit ==
    /\ alive /\ asked = "signal" /\ rpc \in {"grab", "sleep", "returned"}
    /\ is_running' = FALSE
    /\ rpc' = IF rpc = "returned" THEN "returned" ELSE "cancelled"
    /\ alive' = FALSE
    /\ killed' = ocr_threads
    /\ ocr_threads' = 0
    /\ UNCHANGED <<screens, left, captures, ocr_written, asked, late,
                   capRest>>

(***************************************************************************)
(* The ids of the edge's vector index: the OCR thread of the capture loop  *)
(* (refinery/run.py) and the LAN mode of `memex sync` (cli/commands/       *)
(* sync.py) write to the same collection, screen_ocr_history.              *)
(***************************************************************************)
\* now().isoformat(), as characters and digit groups: one timestamp with
\* microseconds and one on a whole second, which isoformat prints without.
Timestamps ==
    { <<"2025-01-01T10", ":", "00", ":", "00", ".", "250000">>,
      <<"2025-01-01T10", ":", "00", ":", "01">> }

ScreenNames == { <<"screen_0">>, <<"screen_1">> }

\* str.replace(old, new) for a one-character old.
replace(s, old, new) == [i \in 1..Len(s) |-> IF s[i] = old THEN new ELSE s[i]]

\* The stem of the record file process_ocr_background writes.
ocr_filename(timestamp, screen_name) ==
    replace(replace(timestamp, ":", "-"), ".", "-") \o <<"_">> \o screen_name

\* The id store_in_chroma_sync gives the record.
doc_id(ocr_data) == ocr_data.timestamp \o <<"_">> \o ocr_data.screen_name

\* collection.add: an id the collection holds already is not added again.
collection_add(coll, entries) ==
    coll \cup {e \in entries : \A x \in coll : x.id # e.id}

IdsIdle == ocr_data_dir = {} /\ collection = {}

\* process_ocr_background for one screen of one capture: the record file is
\* written, then store_in_chroma_sync indexes the record, unless the index
\* service is down.
ProcessOcr ==
    \E timestamp \in Timestamps, screen_name \in ScreenNames, chroma \in BOOLEAN :
       \E ocr_data \in {[timestamp |-> timestamp, screen_name |-> screen_name]} :
          /\ \A f \in ocr_data_dir : f.data # ocr_data
          /\ ocr_data_dir' = ocr_data_dir \cup
                 {[stem |-> ocr_filename(timestamp, screen_name), data |-> ocr_data]}
          /\ collection' = IF chroma
                             THEN collection_add(collection,
                                      {[id |-> doc_id(ocr_data), data |-> ocr_data]})
                             ELSE collection
          /\ UNCHANGED <<srvVars, cliVars, hubVars, capVars, findVars, sampleVars,
                          talkVars>>

\* `memex sync` in LAN mode, from the listing of the record files to its
\* last batch: the files whose stem is no id of the collection (all of them
\* with --force) are added under their stem.
SyncLan ==
    \E force \in BOOLEAN :
       \E existing_ids \in {{x.id : x \in collection}} :
          \E sync_files \in {IF force THEN ocr_data_dir
                             ELSE {f \in ocr_data_dir : f.stem \notin existing_ids}} :
             /\ sync_files # {}
             /\ collection' = collection_add(collection,
                                  {[id |-> f.stem, data |-> f.data] : f \in sync_files})
             /\ UNCHANGED <<ocr_data_dir, srvVars, cliVars, hubVars, capVars, findVars,
                               sampleVars, talkVars>>

(***************************************************************************)
(* search-recent-relevant (server/tools/recent_search.py, and the same     *)
(* code in mcp-server/tools/recent_search.py).  Scores are exact           *)
(* fractions: a distance and min_score are in tenths, recency_weight in    *)
(* halves, a recency score is a number of days over max_days, a timestamp  *)
(* is an age in whole days.                                                *)
(***************************************************************************)
MaxResults == 2     \* largest max_results of a call
MaxWindows == 4     \* the windows of a call that search_windows records

\* The records a collection is made of: two screens of one capture, which
\* share their timestamp, an older record and a recent, unrelated one.
Universe ==
    { [age |-> 12, screen_name |-> "screen_0", distance |-> 2],
      [age |-> 12, screen_name |-> "screen_1", distance |-> 5],
      [age |-> 15, screen_name |-> "screen_0", distance |-> 3],
      [age |-> 3,  screen_name |-> "screen_0", distance |-> 10] }

\* initial_days and max_days of a call: 1 <= initial_days <= max_days.
DayPairs == { <<7, 30>>, <<1, 7>>, <<30, 30>> }

RecencyWeights == {0, 1, 2}     \* recency_weight 0, 0.5 and 1, in halves
MinScores == {0, 5, 6}          \* min_score 0, 0.5 and 0.6, in tenths

NoArgs ==
    [max_results |-> 0, initial_days |-> 0, max_days |-> 0,
     recency_weight |-> 0, min_score |-> 0, records |-> {}]

FindIdle ==
    /\ find_args = NoArgs
    /\ fpc = "idle"
    /\ current_days = 0
    /\ all_results = <<>>
    /\ search_windows = <<>>
    /\ queries = 0
    /\ final_results = <<>>

\* _calculate_recency_score, as a number of days over max_age_days.
_calculate_recency_score(age_days, max_age_days) ==
    IF age_days < 0 THEN max_age_days
    ELSE IF age_days > max_age_days THEN 0
    ELSE max_age_days - age_days

\* max(0, 1 - distance), in tenths.
relevance_of(distance) == IF 10 - distance > 0 THEN 10 - distance ELSE 0

\* relevance * (1 - recency_weight) + recency * recency_weight, as a number
\* of units of 1 / (20 * max_days).
combined_score(relevance, recency, recency_weight, max_days) ==
    relevance * (2 - recency_weight) * max_days + recency * recency_weight * 10

\* min_score in the same unit.
threshold(min_score, max_days) == min_score * 2 * max_days

\* The score of an entry of all_results under the arguments of the call.
score(e) ==
    combined_score(e.relevance, e.recency, find_args.recency_weight,
                   find_args.max_days)

\* The records of a set, nearest to the query first.
RECURSIVE nearest_first(_)
nearest_first(S) ==
    IF S = {} THEN <<>>
    ELSE LET r == CHOOSE x \in S : \A y \in S : x.distance <= y.distance
         IN  <<r>> \o nearest_first(S \ {r})

\* collection.query with n_results and the where clause on the timestamp:
\* the nearest n of the records no older than the window.
query(records, days, n_results) ==
    LET hits == nearest_first({r \in records : r.age <= days})
    IN  SubSeq(hits, 1, Min(n_results, Len(hits)))

\* The entry the loop builds for one hit.
result_entry(r, max_days) ==
    [timestamp |-> r.age, screen_name |-> r.screen_name,
     relevance |-> relevance_of(r.distance),
     recency |-> _calculate_recency_score(r.age, max_days)]

\* The entries one query adds to all_results: those of the hits whose
\* combined score reaches min_score, in the order of the hits.
window_entries(a, days) ==
    SelectSeq([i \in 1..Len(query(a.records, days, a.max_results * 2)) |->
                  result_entry(query(a.records, days, a.max_results * 2)[i],
                               a.max_days)],
              LAMBDA e : combined_score(e.relevance, e.recency, a.recency_weight,
                                        a.max_days)
                           >= threshold(a.min_score, a.max_days))

\* The deduplication mutated: the last entry of each timestamp is kept.
unique_keep_last(q) ==
    SelectSeq([i \in 1..Len(q) |->
                 IF \E j \in (i+1)..Len(q) : q[j].timestamp = q[i].timestamp
                   THEN [timestamp |-> -1] ELSE q[i]],
              LAMBDA e : e.timestamp # -1)

\* The deduplication loop: the first entry of each timestamp is kept.
unique_results(q) ==
    SelectSeq([i \in 1..Len(q) |->
                 IF \E j \in 1..(i-1) : q[j].timestamp = q[i].timestamp
                   THEN [timestamp |-> -1] ELSE q[i]],
              LAMBDA e : e.timestamp # -1)

\* list.sort(key=combined_score, reverse=True): stable, highest first.  The
\* key is the score rounded to 3 decimals; scores here differ by more than
\* 0.001 or not at all, so the order is that of the scores.
RECURSIVE sort_by_score(_, _)
sort_by_score(q, a) ==
    IF q = <<>> THEN <<>>
    ELSE LET key(e) == combined_score(e.relevance, e.recency, a.recency_weight,
                                      a.max_days)
             i == CHOOSE k \in 1..Len(q) :
                     /\ \A j \in 1..Len(q) : key(q[j]) <= key(q[k])
                     /\ \A j \in 1..(k-1) : key(q[j]) < key(q[k])
         IN  <<q[i]>> \o sort_by_score(SubSeq(q, 1, i-1) \o SubSeq(q, i+1, Len(q)), a)

\* What follows the loop: deduplicate, sort, keep max_results.
finish(q, a) ==
    LET sorted == sort_by_score(unique_results(q), a)
    IN  SubSeq(sorted, 1, Min(a.max_results, Len(sorted)))

\* The window after `days`.
next_days(days, a) ==
    IF days = a.initial_days THEN Min(a.initial_days * 4, a.max_days)
    ELSE Min(days * 2, a.max_days)

\* One test of the while loop and, if it passes, one round: the query, which
\* may raise, the entries, the test for enough results and the next window.
\* When the loop is left the call runs to its return.
SearchRound ==
    /\ fpc = "loop"
    /\ IF current_days <= find_args.max_days
            /\ Len(all_results) < find_args.max_results
         THEN /\ search_windows' = IF Len(search_windows) < MaxWindows
                                     THEN Append(search_windows, current_days)
                                     ELSE search_windows
              /\ queries' = (queries + 1) % 2
              /\ \E raised \in BOOLEAN :
                    IF raised
                      THEN /\ fpc' = "returned"
                           /\ final_results' = finish(all_results, find_args)
                           /\ UNCHANGED <<all_results, current_days>>
                      ELSE /\ all_results' = all_results \o
                                  window_entries(find_args, current_days)
                           /\ IF Len(all_results') >= find_args.max_results
                                THEN /\ fpc' = "returned"
                                     /\ final_results' = finish(all_results', find_args)
                                     /\ UNCHANGED current_days
                                ELSE /\ current_days' = next_days(current_days, find_args)
                                     /\ UNCHANGED <<fpc, final_results>>
         ELSE /\ fpc' = "returned"
              /\ final_results' = finish(all_results, find_args)
              /\ UNCHANGED <<all_results, current_days, search_windows, queries>>
    /\ UNCHANGED <<find_args, srvVars, cliVars, hubVars, capVars, idVars, sampleVars,
                   talkVars>>

(***************************************************************************)
(* The sampling of time-range-summary (mcp-server/tools/activity.py), the  *)
(* same arithmetic as _sample_evenly of daily_summary.py.  A record is its *)
(* position, from 0, in the time-sorted list.                              *)
(***************************************************************************)
MaxItems == 30      \* most records in range, and largest max_results

NotSampled == << -1 >>

SampleIdle ==
    /\ filtered_data = 0
    /\ max_results = 1
    /\ sampled_data = NotSampled

\* 2^k modulo m.
RECURSIVE pow2mod(_, _)
pow2mod(k, m) ==
    IF k = 0 THEN 1 % m
    ELSE LET h == pow2mod(k \div 2, m)
         IN  (h * h * (IF k % 2 = 1 THEN 2 ELSE 1)) % m

\* The binary exponent of the fraction n / m, for n >= m: 2^e <= n / m < 2^(e+1).
exponent(n, m) == CHOOSE e \in 0..10 : m * 2^e <= n /\ n < m * 2^(e+1)

\* The binary exponent of the doubles just below the integer k >= 2.
exponent_below(k) == CHOOSE e \in 0..10 : 2^e < k /\ k <= 2^(e+1)

\* The sampling mutated: the step is cut to an integer first.
int_of_product_whole_step(i, n, m) == i * (n \div m)

\* int(i * step) with step = n / m, for 0 <= i < m < n, as IEEE 754 double
\* arithmetic (53-bit significands, round to nearest even) computes it.
\* step is n / m rounded to 52 - e binary places, e its exponent: the
\* places cut off are r / m of the last place, r the remainder of
\* n * 2^(52-e) by m, and step is rounded down if 2r < m (2r = m cannot
\* be).  If m does not divide i * n the product is further from an integer
\* than any rounding goes and int() gives floor(i * n / m).  If it does, the
\* product of i and a step rounded down is below k = i * n / m by
\* i * (r / m) of step's last place, and it is rounded back to k only if
\* that is at most half the last place of the doubles just below k.
int_of_product(i, n, m) ==
    LET k == (i * n) \div m
        e == exponent(n, m)
        r == (n * pow2mod(52 - e, m)) % m
    IN  IF i = 0 \/ (i * n) % m # 0 THEN k
        ELSE IF r = 0 \/ 2 * r > m THEN k
        ELSE IF 2 * i * r * 2^e > m * 2^exponent_below(k) THEN k - 1
        ELSE k

\* The sample of time_range_summary: the whole list if it is no longer than
\* max_results, and else the records at int(i * step), i = 0..max_results-1,
\* that are in the list.
sample(n, m) ==
    IF n > m
      THEN SelectSeq([j \in 1..m |-> int_of_product(j - 1, n, m)],
                     LAMBDA pick : pick < n)
      ELSE [j \in 1..n |-> j - 1]

\* time_range_summary on a range that holds n records, from the sort of the
\* records to the sample.
TimeRangeSummary ==
    /\ sampled_data = NotSampled
    /\ sampled_data' = sample(filtered_data, max_results)
    /\ UNCHANGED <<filtered_data, max_results, srvVars, cliVars, hubVars,
                   capVars, idVars, findVars, talkVars>>

(***************************************************************************)
(* Chat requests one after the other, and DELETE /{instance}/chat/{id}     *)
(* (prometheus_server.py).                                                 *)
(***************************************************************************)
MaxChats == 2       \* most chat requests served one after the other

NoRemoval == [route |-> NoTarget, instance_name |-> NoTarget]

TalkIdle == chats = 0 /\ removed = NoRemoval

\* The stream of a chat request has been read to its end: the handler
\* serves the next request.
ChatClose ==
    /\ cpc = "closed"
    /\ chats < MaxChats - 1
    /\ chats' = chats + 1
    /\ cpc' = "idle"
    /\ cur' = NoChat
    /\ iteration' = 0
    /\ stream' = NoStream
    /\ messages' = NoMessages
    /\ offered' = {}
    /\ assistant_content' = <<>>
    /\ turn' = NoTurn
    /\ UNCHANGED <<api_key, removed, srvVars, cliVars, pageVars, sessVars, capVars,
                   idVars, findVars, sampleVars>>

\* delete_chat_session: the session of that id is deleted, whatever the
\* instance of the route.
DeleteChat ==
    /\ cpc = "idle"
    /\ \E instance \in INSTANCES, session_id \in DOMAIN sessions :
          /\ sessions' = delete_session(sessions, session_id)
          /\ removed' = [route |-> instance,
                         instance_name |-> sessions[session_id].instance_name]
    /\ UNCHANGED <<chats, now, minted, got, srvVars, cliVars, pageVars, chatVars,
                   capVars, idVars, findVars, sampleVars>>

RestIdle == CaptureIdle /\ IdsIdle /\ FindIdle /\ SampleIdle /\ TalkIdle

ServerFresh ==
    /\ files = [i \in INSTANCES |-> [id \in Ids |-> Absent]]
    /\ index = [i \in INSTANCES |-> {}]
    /\ fault = [id \in Ids |-> "ok"]
    /\ chromaUp = TRUE
    /\ req = NoRequest
    /\ resp = NoRequest
    /\ repeated = FALSE

Init == ServerFresh /\ SendIdle /\ RunIdle /\ HubIdle /\ RestIdle

Next == SyncPost \/ SyncStatus \/ McpPost \/ ChatRequest \/ ReadRequest \/ EnvChange

Spec == Init /\ [][Next]_vars

(***************************************************************************)
(* SpecSend: one _send_batch call, from its first POST to its return.      *)
(* The client is one sequential program: it always takes its next step.    *)
(***************************************************************************)
InitSend ==
    /\ ServerFresh
    /\ RunIdle
    /\ HubIdle /\ RestIdle
    /\ policy \in Policies
    /\ cur_batch \in {Numbered(n) :
                        n \in 0..(IF policy.kind = "limit" THEN MaxDocs ELSE MaxUnreliable)}
    /\ stack = << Frame(cur_batch) >>
    /\ log = <<>>
    /\ sent = <<>>
    /\ result = NoResult

NextSend == SendPost /\ UNCHANGED <<srvVars, runVars, hubVars, restVars>>

SpecSend == InitSend /\ [][NextSend]_vars /\ WF_vars(NextSend)

(***************************************************************************)
(* SpecTunnel: one _sync_tunnel run against the server.  The server holds  *)
(* some of the edge's records when the run starts.                         *)
(***************************************************************************)
InitTunnel ==
    /\ edge \in [Ids -> EdgeKinds]
    /\ ocr_files \in Orderings({id \in Ids : edge[id] # Absent})
    /\ \E S \in SUBSET {id \in Ids : edge[id] # Absent} :
          /\ files = [i \in INSTANCES |->
                        [id \in Ids |-> IF i = EdgeInstance /\ id \in S THEN Raw ELSE Absent]]
          /\ index = [i \in INSTANCES |->
                        IF i = EdgeInstance THEN {id \in S : edge[id] = "text"} ELSE {}]
    /\ fault \in FaultMaps
    /\ chromaUp \in BOOLEAN
    /\ req = NoRequest
    /\ resp = NoRequest
    /\ repeated = FALSE
    /\ opts \in [token : Tokens, batch_size : 1..MaxBatchSize,
                 force : BOOLEAN, dry_run : BOOLEAN]
    /\ tpc = "start"
    /\ to_sync = <<>>
    /\ tally = [synced |-> 0, errors |-> 0]
    /\ stack = <<>>
    /\ log = <<>>
    /\ sent = <<>>
    /\ result = NoResult
    /\ policy = [kind |-> "server", k |-> 0]
    /\ cur_batch = <<>>
    /\ HubIdle /\ RestIdle

NextTunnel == TunnelStart \/ TunnelLoop \/ TunnelPost

SpecTunnel == InitTunnel /\ [][NextTunnel]_vars

(***************************************************************************)
(* SpecPages: generate_page called again and again.                        *)
(***************************************************************************)
NextPages == GeneratePage

SpecPages == Init /\ [][NextPages]_vars

(***************************************************************************)
(* SpecSessions: the session table, its callers and the clock.             *)
(***************************************************************************)
NextSessions == GetOrCreate \/ AddMessage \/ DeleteSession \/ Tick

SpecSessions == Init /\ [][NextSessions]_vars

(***************************************************************************)
(* SpecChat: one chat request, with or without a provider client.  The     *)
(* generator is one sequential program, and the provider call returns or   *)
(* raises: the stream always takes its next step.                          *)
(***************************************************************************)
InitChat ==
    /\ ServerFresh /\ SendIdle /\ RunIdle
    /\ PagesIdle /\ SessionsIdle /\ ChatIdle /\ RestIdle
    /\ api_key \in BOOLEAN

NextChat == ChatOpen \/ ChatIterate \/ ChatAppend

\* The generator moves on: every step of NextChat changes its position, and
\* from every position but the last NextChat has a step.
Advance ==
    \/ cpc = "idle" /\ cpc' \in {"loop", "closed"}
    \/ cpc = "loop" /\ cpc' \in {"append", "closed"}
    \/ cpc = "append" /\ cpc' \in {"loop", "closed"}

SpecChat == InitChat /\ [][NextChat]_vars /\ WF_cpc(Advance)

(***************************************************************************)
(* SpecCapture: the capture loop of one edge process, its OCR threads and  *)
(* the shutdown requests.  An OCR thread takes as long as it takes.        *)
(***************************************************************************)
NextCapture ==
    Start \/ Grab \/ Dispatch \/ Wake \/ OcrDone \/ Stop \/ Signal \/ Exit

SpecCapture == Init /\ [][NextCapture]_vars

(***************************************************************************)
(* SpecIds: captures and LAN sync runs of one edge, in any order.          *)
(***************************************************************************)
NextIds == ProcessOcr \/ SyncLan

SpecIds == Init /\ [][NextIds]_vars

(***************************************************************************)
(* SpecFind: one search_recent_relevant call on a connected collection,    *)
(* for every choice of its arguments and of the records.  The call is one  *)
(* sequential program: it always takes its next step.                      *)
(***************************************************************************)
InitFind ==
    /\ ServerFresh /\ SendIdle /\ RunIdle /\ HubIdle /\ CaptureIdle /\ IdsIdle
    /\ SampleIdle /\ TalkIdle
    /\ find_args \in
          { [max_results |-> m, initial_days |-> d[1], max_days |-> d[2],
             recency_weight |-> w, min_score |-> t, records |-> R] :
               m \in 1..MaxResults, d \in DayPairs, w \in RecencyWeights,
               t \in MinScores, R \in SUBSET Universe }
    /\ fpc = "loop"
    /\ current_days = find_args.initial_days
    /\ all_results = <<>>
    /\ search_windows = <<>>
    /\ queries = 0
    /\ final_results = <<>>

NextFind == SearchRound

SpecFind == InitFind /\ [][NextFind]_vars /\ WF_vars(NextFind)

(***************************************************************************)
(* SpecSample: one time_range_summary call, for every number of records in *)
(* range and every max_results up to MaxItems.                             *)
(***************************************************************************)
InitSample ==
    /\ ServerFresh /\ SendIdle /\ RunIdle /\ HubIdle
    /\ CaptureIdle /\ IdsIdle /\ FindIdle /\ TalkIdle
    /\ filtered_data \in 0..MaxItems
    /\ max_results \in 1..MaxItems
    /\ sampled_data = NotSampled

NextSample == TimeRangeSummary

SpecSample == InitSample /\ [][NextSample]_vars

(***************************************************************************)
(* SpecTalk: chat requests served one after the other, on new sessions and *)
(* on those of earlier requests, and deletions of sessions between them.   *)
(***************************************************************************)
NextTalk == ChatOpen \/ ChatIterate \/ ChatAppend \/ ChatClose \/ DeleteChat

SpecTalk == InitChat /\ [][NextTalk]_vars

(***************************************************************************)
(* The claims checked under Spec.                                          *)
(***************************************************************************)
\* The ids of the records of an instance: the <id>.json files there are.
RecordIds(i) == {id \in Ids : files[i][id] # Absent}

\* C1: when an authorized client posts the batch it has just posted, to the
\* same instance, with no other request and no change of the disk or of the
\* index service between the two POSTs, the second POST leaves the id set of
\* every record directory and of every collection (so its count) as the
\* first left them, and the second reply carries the same `written`.
C1_RepostIsIdempotent ==
    [][ (repeated' /\ req'.route = "sync" /\ resp.route = "sync" /\ resp.status = 200)
            => /\ resp'.status = 200
               /\ \A i \in INSTANCES :
                     /\ {id \in Ids : files'[i][id] # Absent} = RecordIds(i)
                     /\ index'[i] = index[i]
                     /\ Cardinality(index'[i]) = Cardinality(index[i])
               /\ resp'.written = resp.written ]_vars

\* A second POST in a row of a batch of two documents, one at least written.
C1_Witness ==
    /\ repeated
    /\ req.route = "sync"
    /\ resp.status = 200
    /\ Len(req.batch) = 2
    /\ resp.written >= 1
    /\ index[req.instance] # {}

\* C2: every id of the vector index of an instance has its <id>.json record
\* in the record directory of that instance.
C2_IndexedIdsHaveRecords == \A i \in INSTANCES : index[i] \subseteq RecordIds(i)

\* C3: an authorized GET /<instance>/sync/status is answered 200 with, as
\* `ids`, the stems of the *.json files of the instance's record directory
\* and, as `count`, their number, whatever the vector index holds and
\* whether it answers or not.
C3_StatusListsRecordFiles ==
    (req.route = "status" /\ req.instance \in INSTANCES
        /\ authenticate(req.token, req.instance))
        => /\ resp.status = 200
           /\ resp.ids = RecordIds(req.instance)
           /\ resp.count = Cardinality(RecordIds(req.instance))

\* A status reply listing two records none of which is in the index, the
\* index service being down.
C3_Witness ==
    /\ req.route = "status"
    /\ resp.status = 200
    /\ resp.ids = {"a", "b"}
    /\ index[req.instance] = {}
    /\ ~chromaUp

\* C4: a request with no token, or with a token that is not allowed the
\* instance it names, changes no record directory and no collection, on any
\* route; POST /<instance>/sync answers it 401, and so does POST
\* /<instance>/mcp unless the size check has refused it first.
C4_NoWriteWithoutToken ==
    [][ (req'.route # "none" /\ ~authenticate(req'.token, req'.instance))
            => /\ files' = files
               /\ index' = index
               /\ (req'.route = "sync" /\ req'.instance \in INSTANCES)
                     => resp'.status = 401
               /\ (req'.route = "mcp" /\ req'.instance \in INSTANCES)
                     => resp'.status \in {401, 413}
               /\ (req'.route = "mcp" /\ req'.instance \in INSTANCES
                     /\ resp'.status = 413) => resp'.stages = <<"size">> ]_vars

\* C4 as stated: every POST /<instance>/mcp whose authentication fails is
\* answered 401.
C4_UnauthenticatedMcpAnswers401 ==
    [][ (req'.route = "mcp" /\ req'.instance \in INSTANCES
            /\ ~authenticate(req'.token, req'.instance))
            => resp'.status = 401 ]_vars

\* A sync POST with the token of another instance, refused, while the
\* instance of the token holds records.
C4_Witness ==
    /\ req.route = "sync"
    /\ req.instance = "walmart"
    /\ req.token = "prometheus"
    /\ resp.status = 401
    /\ RecordIds("personal") # {}
    /\ RecordIds("walmart") = {}

\* C5: when the validator denies a tools/call, call_tool is not invoked for
\* the request and the reply is HTTP 200 with a JSON-RPC result whose
\* isError is true and which carries the validator's reason, not empty.
C5_DeniedCallNotDispatched ==
    (req.route = "mcp" /\ ~req.verdict.allow)
        => /\ ~resp.called
           /\ "dispatch" \notin Range(resp.stages)
           /\ resp.status = 200
           /\ resp.kind = "result"
           /\ resp.isError
           /\ resp.reason = req.verdict.reason
           /\ resp.reason # ""

\* A tools/call of a listed tool, denied on a validator timeout.
C5_Witness ==
    /\ req.route = "mcp"
    /\ req.method = "tools/call"
    /\ req.tool = "get-stats"
    /\ req.verdict = [allow |-> FALSE, reason |-> "validator_timeout"]
    /\ resp.isError

\* C8: a sync POST that is accepted is answered 200 whatever writes fail;
\* `written` is the number of documents whose write succeeded, each of them
\* is in the record directory with the content posted, and `errors` is the
\* first ErrorCap of: one message per document whose write failed, in the
\* order of the batch, then the message of the upsert if it failed.
WriteFailed(doc) == fault[doc.id] # "ok"

C8_FailedWritesDoNotAbort ==
    (req.route = "sync" /\ req.instance \in INSTANCES
        /\ authenticate(req.token, req.instance) /\ req.bodyOk)
        => LET b      == req.batch
               failed == SelectSeq(b, WriteFailed)
               msgs   == [k \in 1..Len(failed) |-> <<"write", failed[k].id>>]
               all    == msgs \o (IF b # <<>> /\ ~chromaUp
                                  THEN << <<"chromadb upsert">> >> ELSE <<>>)
           IN  /\ resp.status = 200
               /\ resp.written = Len(b) - Len(failed)
               /\ \A k \in 1..Len(b) :
                     ~WriteFailed(b[k]) => files[req.instance][b[k].id] = b[k].raw_json
               /\ resp.errors = SubSeq(all, 1, Min(ErrorCap, Len(all)))

\* A batch whose first document fails and whose second is written.
C8_Witness ==
    /\ req.route = "sync"
    /\ resp.status = 200
    /\ Len(req.batch) = 2
    /\ WriteFailed(req.batch[1])
    /\ ~WriteFailed(req.batch[2])
    /\ resp.written = 1
    /\ Len(resp.errors) = 1

\* C9: every id that GET /<instance>/sync/status reports names a file that
\* holds one complete document.
C9_ListedRecordsAreComplete ==
    (resp.route = "status" /\ resp.status = 200)
        => \A id \in resp.ids : files[resp.instance][id] # Partial

\* The order of the stages as the pipeline is described.
PipelineOrder == <<"size", "audit", "auth", "rate", "validate", "dispatch">>

Place(stage) == CHOOSE n \in DOMAIN PipelineOrder : PipelineOrder[n] = stage

\* C11: the stages a POST /<instance>/mcp went through are in the order
\* size-limit, audit, authentication, rate-limit, validation, dispatch.
C11_StagesInPipelineOrder ==
    resp.route = "mcp" =>
        \A i, j \in DOMAIN resp.stages :
            (/\ i < j
             /\ resp.stages[i] \in Range(PipelineOrder)
             /\ resp.stages[j] \in Range(PipelineOrder))
                => Place(resp.stages[i]) < Place(resp.stages[j])

\* C12: a tools/call whose tool raises, an unknown tool included, is
\* answered 200 with a JSON-RPC result, not an error object, whose isError
\* is true and whose content carries the error.
C12_ToolExceptionIsAResult ==
    (resp.route = "mcp" /\ resp.called /\ call_tool(req.tool).raised) =>
        /\ resp.status = 200
        /\ resp.kind = "result"
        /\ resp.isError
        /\ resp.reason = call_tool(req.tool).error

\* An allowed call of a tool that no instance has.
C12_Witness ==
    /\ resp.route = "mcp"
    /\ req.tool = "no-such-tool"
    /\ req.verdict.allow
    /\ resp.called
    /\ resp.isError
    /\ resp.status = 200

\* The bytes of a sync body: those of its texts, at least.
RECURSIVE BodyBytes(_)
BodyBytes(docs) ==
    IF docs = <<>> THEN 0
    ELSE (IF Head(docs).text = HugeText THEN MAX_REQUEST_SIZE + 1 ELSE 5)
            + BodyBytes(Tail(docs))

\* C13: a POST /<instance>/sync or /<instance>/mcp whose body is over 1 MiB
\* is answered 413, with or without a Content-Length.
C13_OversizedBodyRefused ==
    (/\ req.route \in {"sync", "mcp"}
     /\ req.instance \in INSTANCES
     /\ (IF req.route = "sync" THEN BodyBytes(req.batch) ELSE req.bytes) > MAX_REQUEST_SIZE)
        => resp.status = 413

\* C14: every POST /<instance>/mcp writes a line to the audit log.
C14_EveryMcpRequestAudited ==
    resp.route = "mcp" => Len(resp.audit) >= 1

\* MemexInstance.get_tool_definitions: the names of the definitions, those
\* of them that the requests of the model name.
get_tool_definitions == {"search-screenshots", "get-stats"}

\* C29: for every instance InstanceManager builds, each tool name that
\* get_tool_definitions() returns is dispatched by call_tool to its tool,
\* never rejected as unknown and never failing because the tool registry is
\* missing, and call_tool with a name that is not registered raises
\* `Unknown tool`.
C29_DefinedToolsDispatched ==
    (resp.route = "mcp" /\ resp.called) =>
       /\ req.tool \in get_tool_definitions =>
             ~(resp.isError /\ resp.reason \in {"AttributeError", "Unknown tool"})
       /\ req.tool \notin get_tool_definitions =>
             resp.isError /\ resp.reason = "Unknown tool"

(***************************************************************************)
(* The claims checked under SpecSend.                                      *)
(***************************************************************************)
\* The outermost _send_batch call has returned.
SendDone == stack = <<>> /\ result # NoResult

\* The server of the claim: a limit of k >= 1 documents.
SizeLimited == policy.kind = "limit" /\ policy.k >= 1

\* The number of successful POSTs that carried document d.
Delivered(d) == Cardinality({j \in 1..Len(sent) : sent[j] = d})

\* C6: against a server that answers 413 to every POST of more than k
\* documents (k >= 1) and succeeds on every other, _send_batch returns, and
\* when it has, every document of the batch was in exactly one successful
\* POST and the call counts zero errors.
C6_SplitDeliversEveryDocument ==
    /\ [](SizeLimited /\ SendDone =>
            /\ \A i \in 1..Len(cur_batch) : Delivered(cur_batch[i]) = 1
            /\ Len(sent) = Len(cur_batch)
            /\ result.err = 0)
    /\ [](SizeLimited => <>SendDone)

\* Ten documents, k = 4: 10 and both 5s are refused, 2 + 3 + 2 + 3 go through.
C6_Witness ==
    /\ SizeLimited
    /\ SendDone
    /\ policy.k = 4
    /\ Len(cur_batch) = 10
    /\ Len(log) = 7
    /\ result = Returned(10, 0)

Failing(o) == o.kind \in {"http", "exc"}

\* No POST of the call was answered 413: the call never split.
NoSplit == \A j \in 1..Len(log) : log[j].out.kind # "413"

\* C7: while no POST is answered 413, the call's history is POSTs of the
\* whole batch alternating with sleeps, at most 3 POSTs, the sleeps of 1 s
\* then 2 s, each after a failed POST; nothing follows a success, whose
\* counts the call returns at once; after the third failure, and only then,
\* the call returns 0 synced and len(batch) errors.
C7_ThreeAttemptsWithBackoff ==
    NoSplit =>
        /\ Len(log) <= 5
        /\ \A j \in 1..Len(log) :
              /\ log[j].batch = cur_batch
              /\ IF j % 2 = 1
                 THEN log[j].ev = "post" /\ (j < Len(log) => Failing(log[j].out))
                 ELSE log[j].ev = "sleep" /\ log[j].secs = (IF j = 2 THEN 1 ELSE 2)
        /\ SendDone <=> (log # <<>> /\ log[Len(log)].ev = "post")
        /\ SendDone =>
              LET last == log[Len(log)].out
              IN  IF Failing(last)
                  THEN Len(log) = 5 /\ result = Returned(0, Len(cur_batch))
                  ELSE result = Returned(last.indexed, last.nerr)

\* A batch of two fails with an HTTP error, a transport error and an HTTP
\* error again: three POSTs, two sleeps, (0, 2).
C7_Witness ==
    /\ policy.kind = "unreliable"
    /\ SendDone
    /\ Len(cur_batch) = 2
    /\ Len(log) = 5
    /\ log[1].out.kind = "http"
    /\ log[2].secs = 1
    /\ log[3].out.kind = "exc"
    /\ log[4].secs = 2
    /\ log[5].out.kind = "http"
    /\ result = Returned(0, 2)

(***************************************************************************)
(* The claims checked under SpecTunnel.                                    *)
(***************************************************************************)
\* The ids of the edge's record store: the stems of its *.json files.
EdgeIds == {id \in Ids : edge[id] # Absent}

\* C10: after a run, neither forced nor dry, that got the server's status
\* and returned with 0 errors, the status route lists exactly the ids of
\* the edge's record store.
C10_StatusMatchesEdge ==
    (tpc \in {"in_sync", "done"} /\ ~opts.force /\ ~opts.dry_run /\ tally.errors = 0)
        => disk_ids(files[EdgeInstance]) = EdgeIds


(***************************************************************************)
(* The claims checked under SpecPages.                                     *)
(***************************************************************************)
\* A stem names a file of pages_dir itself: it holds no path separator and
\* no dot.
InPagesDir(stem) == "/" \notin Range(stem) /\ "." \notin Range(stem)

\* C20: generate_page never overwrites an existing page.  Every call
\* writes a file that was not there, directly inside pages_dir: the first
\* call for a title writes <slug>.html, a later one the first free
\* <slug>-N.html, N = 1, 2, ...
C20_PagesNeverOverwritten ==
    made # NoPage =>
        LET slug == _slugify(made.title)
        IN  /\ made.fresh
            /\ made.stem \in pages
            /\ InPagesDir(made.stem)
            /\ \/ made.stem = slug
               \/ \E n \in 1..MaxPages :
                     /\ made.stem = Suffixed(slug, n)
                     /\ slug \in pages
                     /\ \A k \in 1..(n - 1) : Suffixed(slug, k) \in pages

\* The second page titled Hello World: hello-world-1 beside hello-world.
C20_Witness ==
    /\ made.title = HelloWorld
    /\ made.stem = <<"h", "e", "l", "l", "o", "-", "w", "o", "r", "l", "d", "-", "1">>
    /\ <<"h", "e", "l", "l", "o", "-", "w", "o", "r", "l", "d">> \in pages
    /\ Cardinality(pages) = 2


(***************************************************************************)
(* The claims checked under SpecSessions.                                  *)
(***************************************************************************)
\* C19: a session whose last activity is more than one hour in the past is
\* never observed by a later chat call.  A get_or_create_session call that
\* presents its id finds it removed and returns a session with a new id
\* and an empty history.
C19_ExpiredSessionNotObserved ==
    got.stale =>
        /\ got.id # got.asked
        /\ got.id = minted
        /\ got.messages = <<>>
        /\ got.asked \notin DOMAIN sessions

\* A session that held a turn is presented one hour and one second after
\* its last activity.
C19_Witness ==
    /\ got.stale
    /\ got.old # <<>>
    /\ got.asked = 1
    /\ got.id = 2
    /\ now = SessionTTL + 1


(***************************************************************************)
(* The claims checked under SpecChat.                                      *)
(***************************************************************************)
\* C15: in every chat stream the first event is session, done is sent at
\* most once and no event follows it, and a stream that has ended has done
\* as its last event.
C15_SessionFirstDoneLast ==
    /\ stream.first \in {"", "session"}
    /\ stream.dones <= 1
    /\ ~stream.after_done
    /\ cpc = "closed" => stream.last = "done"

\* The tool_use blocks of the response of the last iteration.
Asked == ToolCalls(assistant_content)

\* What one step of the loop does.  A provider call that returns a response
\* without tool_use block ends the stream with done; one that returns
\* tool_use blocks executes every one of them.  Their results are then
\* appended as the next user turn, and the loop goes on, unless this was
\* the iteration max_iterations, which ends the stream with done.
LoopStep ==
    /\ (cpc = "loop" /\ cpc' # "loop" /\ stream'.last # "error") =>
           /\ iteration' = iteration + 1
           /\ IF ToolCalls(assistant_content') = <<>>
                THEN cpc' = "closed" /\ stream'.last = "done"
                ELSE /\ cpc' = "append"
                     /\ [i \in DOMAIN turn'.execs |-> turn'.execs[i].id]
                            = [i \in DOMAIN ToolCalls(assistant_content') |->
                                  ToolCalls(assistant_content')[i].id]
                     /\ messages'.role = "assistant"
    /\ (cpc = "append" /\ cpc' # "append") =>
           /\ messages'.n = messages.n + 1
           /\ messages'.role = "user"
           /\ messages'.content = turn.tool_results
           /\ Len(turn.tool_results) = Len(Asked)
           /\ iteration' = iteration
           /\ IF iteration < max_iterations
                THEN cpc' = "loop" /\ stream' = stream
                ELSE cpc' = "closed" /\ stream'.last = "done"

\* C16: one chat request calls the provider at most max_iterations = 10
\* times; the loop ends at the first response without tool_use block,
\* otherwise it executes the blocks, appends their results as the next user
\* turn and continues, and it stops after the 10th iteration: every stream
\* that was opened ends.
C16_AtMostTenProviderCalls ==
    /\ [](iteration <= max_iterations)
    /\ [][LoopStep]_vars
    /\ (cpc # "idle") ~> (cpc = "closed")

\* Ten provider calls that all asked for tools: the stream ends with done
\* after the results of the tenth were appended.
C16_Witness ==
    /\ cpc = "closed"
    /\ iteration = max_iterations
    /\ messages.role = "user"
    /\ messages.n = 1 + 2 * max_iterations
    /\ stream.last = "done"

\* C17: when the execution of a tool raises, a tool_result event with the
\* id of the tool call and the error flag is sent on the stream, the
\* tool_results of the next user turn hold an entry for the id with
\* is_error, and the other tool calls of the turn are executed all the same.
C17_ToolFailureSurfaced ==
    cpc = "append" =>
        /\ Len(turn.execs) = Len(Asked)
        /\ \A i \in DOMAIN turn.execs :
              turn.execs[i].raised =>
                  /\ turn.tool_results[i] =
                         [tool_use_id |-> turn.execs[i].id, is_error |-> TRUE]
                  /\ \E k \in DOMAIN turn.events :
                        /\ turn.events[k].name = "tool_result"
                        /\ turn.events[k].id = turn.execs[i].id
                        /\ turn.events[k].is_error

\* A name of the form <instance>__..., for a declared instance.
HasInstancePrefix(name) == Len(name) >= 3 /\ name[1] \in INSTANCES /\ name[2] = Sep

\* C18: in cross-instance chat every tool name offered to the provider, and
\* every offered name in a tool_call event, is prefixed <instance>__ with a
\* declared instance, and the execution of <instance>__<tool> invokes
\* <tool> on <instance>.
C18_CrossInstanceNamesPrefixed ==
    cur.cross_instance =>
        /\ \A name \in offered : HasInstancePrefix(name)
        /\ \A k \in DOMAIN turn.events :
              (turn.events[k].name = "tool_call" /\ turn.events[k].tool \in offered)
                  => HasInstancePrefix(turn.events[k].tool)
        /\ \A i \in DOMAIN turn.execs, inst \in INSTANCES, t \in ToolDefs :
              turn.execs[i].name = Prefixed(inst, t)
                  => turn.execs[i].instance = inst /\ turn.execs[i].tool = t

(***************************************************************************)
(* The claims checked under SpecCapture.                                   *)
(***************************************************************************)
\* C21: at any moment at most max_concurrent_ocr (4 by default) of the OCR
\* tasks dispatched by the capture loop are running, whatever the number of
\* screens and however long one OCR takes compared with the capture interval.
C21_AtMostMaxConcurrentOcr == ocr_threads <= max_concurrent_ocr

\* C22: after shutdown is requested (stop(), SIGINT or SIGTERM) the capture
\* loop begins no new capture, and the OCR tasks in flight are drained: they
\* complete and write their record files before the process exits.
C22_ShutdownStopsAndDrains ==
    /\ ~late
    /\ ~alive => killed = 0

(***************************************************************************)
(* The claims checked under SpecIds.                                       *)
(***************************************************************************)
\* C30: one record has one id in the vector index: the id under which the
\* capture loop indexes a record is the stem of its record file, the id
\* under which sync indexes it, and after any interleaving of captures and
\* sync runs no record is in the index under two ids.
C30_OneIdPerRecord ==
    /\ \A x \in collection :
          x.id = ocr_filename(x.data.timestamp, x.data.screen_name)
    /\ \A x, y \in collection : x.data = y.data => x.id = y.id

(***************************************************************************)
(* The claims checked under SpecFind.                                      *)
(***************************************************************************)
\* C23: search-recent-relevant searches the window initial_days, then
\* 4 x initial_days, then doubles it; every window is at most max_days, no
\* window size is searched twice, and the search goes on only while fewer
\* than max_results entries are collected; with initial_days = 7,
\* max_days = 30 and matches only 10 to 15 days old the reply reports
\* windows_searched = [7, 28].
C23_WindowsExpandOnce ==
    LET w == search_windows
        a == find_args
    IN  fpc # "idle" =>
          /\ Len(w) >= 1 => w[1] = a.initial_days
          /\ Len(w) >= 2 => w[2] = 4 * a.initial_days
          /\ \A k \in 3..Len(w) : w[k] = 2 * w[k-1]
          /\ \A k \in 1..Len(w) : w[k] <= a.max_days
          /\ \A j, k \in 1..Len(w) : j # k => w[j] # w[k]
          /\ fpc = "loop" => Len(all_results) < a.max_results
          /\ ( /\ fpc = "returned" /\ final_results # <<>>
               /\ a.initial_days = 7 /\ a.max_days = 30
               /\ \A r \in a.records : r.age \in 10..15 )
             => w = <<7, 28>>

\* C28: search_recent_relevant terminates for every input with
\* 1 <= initial_days <= max_days, also when every window yields fewer than
\* max_results results: it makes finitely many queries and returns.
C28_SearchTerminates == <>(fpc = "returned")

\* C24: in the results of search-recent-relevant every entry has a combined
\* score, relevance * (1 - w) + recency * w, of at least min_score, no two
\* entries have the same timestamp, and among the candidates that share a
\* timestamp the one kept has the highest combined score.
C24_ResultsScoredAndUnique ==
    fpc = "returned" =>
       \A i \in 1..Len(final_results) :
          /\ score(final_results[i])
                >= threshold(find_args.min_score, find_args.max_days)
          /\ \A j \in 1..Len(final_results) :
                j # i => final_results[j].timestamp # final_results[i].timestamp
          /\ \A k \in 1..Len(all_results) :
                all_results[k].timestamp = final_results[i].timestamp
                   => score(all_results[k]) <= score(final_results[i])

\* A call has returned a result whose timestamp two candidates of different
\* scores share, and a record of its last window fell below min_score.
C24_Witness ==
    /\ fpc = "returned"
    /\ \E i \in 1..Len(final_results), j, k \in 1..Len(all_results) :
          /\ all_results[j].timestamp = final_results[i].timestamp
          /\ all_results[k].timestamp = final_results[i].timestamp
          /\ score(all_results[j]) < score(all_results[k])
    /\ \E r \in find_args.records :
          /\ r.age <= search_windows[Len(search_windows)]
          /\ score(result_entry(r, find_args.max_days))
                < threshold(find_args.min_score, find_args.max_days)

(***************************************************************************)
(* The claims checked under SpecSample.                                    *)
(***************************************************************************)
\* ceil(n / m).
CeilDiv(n, m) == (n + m - 1) \div m

\* The parts of C25 that do not name the positions: the sample of N > M
\* records holds exactly M positions of the list, in increasing order (so
\* distinct and chronological), the earliest record first, consecutive
\* picks within ceil(N/M) +/- 1 positions of each other.
EvenSample ==
    /\ Len(sampled_data) = max_results
    /\ sampled_data[1] = 0
    /\ \A j \in 1..max_results : sampled_data[j] \in 0..(filtered_data - 1)
    /\ \A j \in 1..(max_results - 1) :
          /\ sampled_data[j] < sampled_data[j+1]
          /\ sampled_data[j+1] - sampled_data[j]
                \in (CeilDiv(filtered_data, max_results) - 1)
                    ..(CeilDiv(filtered_data, max_results) + 1)

Sampled == sampled_data # NotSampled /\ filtered_data > max_results

\* C25 as stated: time-range-summary with max_results = M on N > M records
\* returns exactly M distinct records in chronological order, those at the
\* positions floor(i * N / M), i = 0..M-1, of the time-sorted list, the
\* earliest included, consecutive picks within ceil(N/M) +/- 1 positions.
C25_SampleAtFloorPositions ==
    Sampled =>
       /\ EvenSample
       /\ \A j \in 1..max_results :
             sampled_data[j] = ((j - 1) * filtered_data) \div max_results

\* C25 as the code has it: the same, with each position floor(i * N / M) or
\* the position before it.
C25_SampleNearFloorPositions ==
    Sampled =>
       /\ EvenSample
       /\ \A j \in 1..max_results :
             sampled_data[j] \in
                 { ((j - 1) * filtered_data) \div max_results - 1,
                   ((j - 1) * filtered_data) \div max_results }

\* A sample has been taken in which a pick is the position before
\* floor(i * N / M).
C25_Witness ==
    /\ Sampled
    /\ \E j \in 1..Len(sampled_data) :
          sampled_data[j] = ((j - 1) * filtered_data) \div max_results - 1

(***************************************************************************)
(* The claims checked under SpecTalk.                                      *)
(***************************************************************************)
\* C26: a chat request to POST /<instance>/chat only ever executes tools
\* against <instance>, also when it presents the id of a session created
\* under another instance or under the cross-instance POST /chat, and
\* DELETE /<instance>/chat/<session_id> only deletes sessions of <instance>.
C26_ChatStaysInItsInstance ==
    /\ (cpc # "idle" /\ ~cur.cross_instance) =>
          \A k \in 1..Len(turn.execs) :
             turn.execs[k].instance \in {NoTarget, cur.route}
    /\ removed.instance_name = removed.route

\* C27: after any sequence of chat calls on a session, those that end in a
\* provider error or use up the 10 iterations included, session.messages
\* alternates user and assistant turns, starting with a user turn, and no
\* stored assistant turn holds a tool_use block that the following turn does
\* not answer with a tool_result (no stored turn holds tool_results).
C27_HistoryWellFormed ==
    cpc \in {"idle", "closed"} =>
       \A sid \in DOMAIN sessions :
          \A k \in 1..Len(sessions[sid].messages) :
             /\ sessions[sid].messages[k].role
                   = IF k % 2 = 1 THEN "user" ELSE "assistant"
             /\ ~sessions[sid].messages[k].tool_use

====
